---------------------------- MODULE Spec2Model ----------------------------
(***************************************************************************)
(* A model of conf-reader's extraction-and-reconciliation pipeline:        *)
(*   - the remote acquisition workflow (DownloadService, ArxivDownloader,  *)
(*     PDFExtractor, the PaperDatabase updates it makes),                  *)
(*   - the poster extraction protocol (ImageExtractor),                    *)
(*   - the response recovery functions (json_utils),                       *)
(*   - the validation of a recovered structure (validate_paper_data and    *)
(*     the PaperMetadata built from it),                                   *)
(*   - the local file matcher (PDFMatcher).                                *)
(* Each part has its own specification; the variables of the other parts   *)
(* keep their initial values under it.                                     *)
(***************************************************************************)
EXTENDS Integers, Sequences, FiniteSets, TLC

VARIABLES
    disk,      \* acquisition: path -> file on disk (or NoFile)
    store,     \* acquisition: paper_id -> row of the papers table
    call,      \* acquisition: caller -> frame of the call in progress
    stats,     \* extraction: ImageExtractor.stats
    ex,        \* extraction: frame of the extract_from_image call in progress
    rc,        \* recovery: frame of the extract_json_safely call in progress
    vd,        \* validation: frame of the _parse_response call in progress
    mt         \* matching: frame of the match_paper_to_pdf call in progress

dlVars == <<disk, store, call>>
exVars == <<stats, ex>>
rcVars == <<rc>>
vdVars == <<vd>>
mtVars == <<mt>>
vars == <<disk, store, call, stats, ex, rc, vd, mt>>

(***************************************************************************)
(* Bounds of the model.                                                    *)
(***************************************************************************)
\* extract_from_image calls made on one extractor
MaxCalls == 3

(***************************************************************************)
(* Program constants.                                                      *)
(***************************************************************************)
\* min_similarity = 0.6, kept as the fraction MinSimNum / MinSimDen
MinSimNum == 6
MinSimDen == 10
\* download_pdf: a file under 1000 bytes is dropped
MinPdfSize == 1000
\* extract_detailed_overview: fewer than 100 characters of text is a failure
MinTextLen == 100

(***************************************************************************)
(* PART 1.  Remote acquisition.                                            *)
(***************************************************************************)

\* The absent value (Python's None) wherever a string or record is optional.
None == "None"

\* The callers of the shared DownloadService (main_UI.get_download_service).
Procs == {"u1", "u2"}

\* Titles are sequences of whitespace-separated words.
TVision == <<"Vision", "Transformers", "for", "Segmentation">>
TAttention == <<"Attention", "Is", "All", "You", "Need">>
TGraphs == <<"The", "Graphs">>

\* The PaperMetadata objects the callers hold.  p1 and p2 are rows of the
\* store; p3 was never saved and has no conference_name.
Papers ==
    { [paper_id |-> "p1", title |-> TVision, conference_name |-> "cvpr"],
      [paper_id |-> "p2", title |-> TAttention, conference_name |-> "icml"],
      [paper_id |-> "p3", title |-> TGraphs, conference_name |-> None] }

StoreIds == {"p1", "p2"}

PaperOf(id) == CHOOSE q \in Papers : q.paper_id = id

\* str.lower() on the words of the model's vocabulary.
Lower(w) ==
    CASE w = "Vision" -> "vision"
      [] w = "Transformers" -> "transformers"
      [] w = "Segmentation" -> "segmentation"
      [] w = "Medical" -> "medical"
      [] w = "Image" -> "image"
      [] w = "Classification" -> "classification"
      [] w = "Attention" -> "attention"
      [] w = "Is" -> "is"
      [] w = "All" -> "all"
      [] w = "You" -> "you"
      [] w = "Need" -> "need"
      [] w = "Unrelated" -> "unrelated"
      [] w = "Survey" -> "survey"
      [] w = "Databases" -> "databases"
      [] w = "The" -> "the"
      [] w = "Graphs" -> "graphs"
      [] OTHER -> w

stop_words ==
    {"the", "a", "an", "and", "or", "but", "in", "on", "at", "to", "for",
     "of", "with", "by"}

\* set(title.lower().split()) - stop_words
TitleWords(title) == {Lower(title[i]) : i \in DOMAIN title} \ stop_words

\* ArxivDownloader._calculate_similarity: the Jaccard ratio |I| / |U| of the
\* two word sets, as the pair <<numerator, denominator>>; 0.0 is <<0, 1>>.
_calculate_similarity(title1, title2) ==
    LET words1 == TitleWords(title1)
        words2 == TitleWords(title2)
    IN  IF words1 = {} \/ words2 = {}
        THEN <<0, 1>>
        ELSE <<Cardinality(words1 \cap words2), Cardinality(words1 \cup words2)>>

\* A defect: the comparison of the gate is turned around.
AboveMinSimilarity(sim) == sim[1] * MinSimDen > MinSimNum * sim[2]

\* similarity < min_similarity: n/d < MinSimNum/MinSimDen, d > 0.
BelowMinSimilarity(sim) == sim[1] * MinSimDen < MinSimNum * sim[2]

\* DownloadService._generate_pdf_filename.  Every title of the model is under
\* 50 characters and made of alphanumeric words, and every paper_id under 8
\* characters, so the name is the words joined by "_" then "_" and the id.
_generate_pdf_filename(paper) == <<paper.title, paper.paper_id>>

\* conferences_root / conference_name / "pdfs" / pdf_filename
OutputPath(paper, conference_name) ==
    [conf |-> conference_name, file |-> _generate_pdf_filename(paper)]

\* main_UI: conference_name = paper.conference_name or "neurips2025"
UiConference(paper) ==
    IF paper.conference_name # None THEN paper.conference_name ELSE "neurips2025"

\* download_all_missing: paper.conference_name or conference_name or "unknown"
BulkConference(paper, conference_name) ==
    IF paper.conference_name # None THEN paper.conference_name
    ELSE IF conference_name # None THEN conference_name
    ELSE "unknown"

\* The conference_name arguments download_all_missing is called with.
BulkArgs == {None, "cvpr"}

\* Every path a call of the model can target.
Paths ==
    {OutputPath(q, UiConference(q)) : q \in Papers}
    \cup {OutputPath(PaperOf(id), BulkConference(PaperOf(id), a)) :
                id \in StoreIds, a \in BulkArgs}

NoFile == [size |-> 0, origin |-> "absent"]
Exists(path) == disk[path].origin # "absent"

\* The entries the title index can return; an atom:id or atom:title element
\* that is missing or has no text is "" or <<>>.  The index responds with up to
\* two entries in its relevance order (or the request fails, see SearchPaper).
Entries ==
    { [id |-> "2401.1", title |-> TVision],
      [id |-> "2401.2",
       title |-> <<"Vision", "Transformers", "for", "Medical", "Image", "Segmentation">>],
      [id |-> "2401.3",
       title |-> <<"Vision", "Transformers", "for", "Image", "Classification">>],
      [id |-> "2401.4", title |-> <<"Unrelated", "Survey", "on", "Databases">>],
      [id |-> "2401.5", title |-> TAttention],
      [id |-> "", title |-> TVision],
      [id |-> "2401.6", title |-> <<>>] }

IndexResponses ==
    {<<>>} \cup {<<e>> : e \in Entries}
    \cup {<<e, f>> : e \in {x \in Entries : x.id \in {"2401.4", "", "2401.6"}},
                     f \in {x \in Entries : x.id = "2401.1"}}
    \cup {<<e, f>> : e \in {x \in Entries : x.id = "2401.2"},
                     f \in {x \in Entries : x.id = "2401.4"}}

\* The URLs of the manual variant: an abstract page (arxiv.org/abs/<id>) and a
\* direct link.
Urls ==
    { [form |-> "abs", id |-> "2401.1"],
      [form |-> "pdf", id |-> "2401.1"] }

\* Sizes of the bodies the download server sends, and of what a broken
\* transfer leaves behind.
BodySizes == {999, 1000, 1001}
PartialSizes == {0, 1000}

\* Lengths of the text read from the leading pages.
TextLens == {0, 40, 99, 100}

\* Responses of the text backend to the overview prompt (after strip()).
Overviews == {"", "overview"}

NoUrl == [form |-> "none", id |-> ""]
NoResult == [found |-> FALSE, arxiv_id |-> "", title |-> <<>>, pdf_url |-> NoUrl,
             similarity |-> <<0, 1>>]
NoPaper == [paper_id |-> "", title |-> <<>>, conference_name |-> None]
NoPath == [conf |-> None, file |-> <<>>]

\* The frame of a caller: the operation it is in, its position (pc) and the
\* locals of download_paper / download_paper_from_url / download_all_missing
\* and of the functions they call (text_len is the length of the text read
\* from the PDF).  trace lists the stages the current single-paper run has
\* gone through, entries what the index answered to its search.
IdleFrame ==
    [pc |-> "idle", op |-> None, paper |-> NoPaper, conf |-> None, url |-> NoUrl,
     out |-> NoPath, startAbsent |-> FALSE, result |-> NoResult, dl_ok |-> FALSE,
     dl_url |-> NoUrl, success |-> FALSE, message |-> None, pdf_url |-> NoUrl,
     overview |-> None, text_len |-> 0, entries |-> <<>>,
     trace |-> <<>>, queue |-> <<>>, bulkArg |-> None,
     total |-> 0, nsuccess |-> 0, nfailed |-> 0, errors |-> <<>>]

\* Only caller p is mid-call.
OthersIdle(p) == \A q \in Procs \ {p} : call[q].pc = "idle"


\* A row of the papers table (the columns the workflow reads or writes).
Row(found, path, url, overview) ==
    [pdf_found |-> found, pdf_path |-> path, pdf_url |-> url, overview |-> overview]

\* A file that was on disk before any call of the model.
OldFile == [size |-> 1000, origin |-> "pre"]

\* The store and the disk agree at the start: a stored paper either has its
\* PDF on disk and is marked pdf_found, or neither.
AcquireInit ==
    /\ \E have \in [StoreIds -> BOOLEAN] :
        /\ store = [id \in StoreIds |->
                      IF have[id]
                      THEN Row(TRUE, OutputPath(PaperOf(id), UiConference(PaperOf(id))),
                               NoUrl, "poster")
                      ELSE Row(FALSE, NoPath, NoUrl, "poster")]
        /\ disk = [path \in Paths |->
                      IF \E id \in StoreIds :
                            /\ have[id]
                            /\ path = OutputPath(PaperOf(id), UiConference(PaperOf(id)))
                      THEN OldFile ELSE NoFile]
    /\ call = [p \in Procs |-> IdleFrame]

\* A defect: the last of the entries returned is taken.
LastEntry(entries) == entries[Len(entries)]

\* search_paper line 53: entry = entries[0]
FirstEntry(entries) == entries[1]

\* ArxivDownloader.search_paper on the index's response resp: only the first
\* entry is read.
search_paper(title, resp) ==
    IF resp = <<>> THEN NoResult
    ELSE LET entry == FirstEntry(resp)
         IN  IF entry.id = "" \/ entry.title = <<>> THEN NoResult
             ELSE [found |-> TRUE, arxiv_id |-> entry.id, title |-> entry.title,
                   pdf_url |-> [form |-> "pdf", id |-> entry.id],
                   similarity |-> _calculate_similarity(title, entry.title)]

\* A defect: the URL is used as the caller gave it.
KeepUrl(url) == url

\* download_from_url: an arxiv.org/abs/<id> URL becomes arxiv.org/pdf/<id>.pdf.
NormalizeUrl(url) ==
    IF url.form = "abs" THEN [form |-> "pdf", id |-> url.id] ELSE url

\* A defect: the file is left where it is.
KeepFile(path) == disk

\* Path.unlink()
Unlink(path) == [disk EXCEPT ![path] = NoFile]

\* The frame f as download_paper / download_paper_from_url returns (ok, msg).
Returned(f, ok, msg) == [f EXCEPT !.pc = "dp_ret", !.success = ok, !.message = msg]

Stage(f, name) == Append(f.trace, name)

\* A caller starts download_paper(paper, conference_name) as main_UI does.
CallDownloadPaper(p) ==
    /\ call[p].pc = "idle"
    /\ \E paper \in Papers :
        call' = [call EXCEPT ![p] =
                    [IdleFrame EXCEPT !.pc = "dp_exists", !.op = "download_paper",
                                      !.paper = paper, !.conf = UiConference(paper),
                                      !.out = OutputPath(paper, UiConference(paper))]]
    /\ UNCHANGED <<disk, store, exVars, rcVars, vdVars, mtVars>>

\* A caller starts download_paper_from_url(paper, conference_name, url).
CallDownloadPaperFromUrl(p) ==
    /\ call[p].pc = "idle"
    /\ \E paper \in Papers, url \in Urls :
        call' = [call EXCEPT ![p] =
                    [IdleFrame EXCEPT !.pc = "dp_exists", !.op = "download_paper_from_url",
                                      !.paper = paper, !.conf = UiConference(paper),
                                      !.url = url,
                                      !.out = OutputPath(paper, UiConference(paper))]]
    /\ UNCHANGED <<disk, store, exVars, rcVars, vdVars, mtVars>>

\* A caller uses the downloader itself: download_from_url(url, output_path),
\* whatever is at output_path.
CallDownloadFromUrl(p) ==
    /\ call[p].pc = "idle"
    /\ \E url \in Urls, output_path \in Paths :
        call' = [call EXCEPT ![p] =
                    [IdleFrame EXCEPT !.pc = "url_norm", !.op = "download_from_url",
                                      !.url = url, !.out = output_path,
                                      !.startAbsent = ~Exists(output_path)]]
    /\ UNCHANGED <<disk, store, exVars, rcVars, vdVars, mtVars>>

\* The orders in which get_all_papers can list the rows (no ORDER BY).
RowOrders == {<<"p1", "p2">>, <<"p2", "p1">>}

\* A defect: the conference named by the caller is ignored.
NeedsDownloadAnywhere(id, conference_name) == ~store[id].pdf_found

\* download_all_missing lines 80-86: the paper has no PDF and, when a
\* conference is named, is of that conference.
NeedsDownload(id, conference_name) ==
    /\ ~store[id].pdf_found
    /\ conference_name # None => PaperOf(id).conference_name = conference_name

\* download_all_missing lines 78-93: the papers to download, from the rows as
\* they are now, and the empty statistics.
CallDownloadAllMissing(p) ==
    /\ call[p].pc = "idle"
    /\ \E arg \in BulkArgs, all_papers \in RowOrders :
        LET papers_to_download == SelectSeq(all_papers, LAMBDA id : NeedsDownload(id, arg))
        IN  call' = [call EXCEPT ![p] =
                        [IdleFrame EXCEPT !.pc = "bulk_loop", !.op = "download_all_missing",
                                          !.bulkArg = arg, !.queue = papers_to_download,
                                          !.total = Len(papers_to_download)]]
    /\ UNCHANGED <<disk, store, exVars, rcVars, vdVars, mtVars>>

\* download_all_missing lines 95-97: the next paper of the loop, or the end.
BulkLoop(p) ==
    /\ call[p].pc = "bulk_loop"
    /\ LET f == call[p]
       IN  IF f.queue = <<>>
           THEN call' = [call EXCEPT ![p] = [f EXCEPT !.pc = "bulk_ret"]]
           ELSE LET paper == PaperOf(Head(f.queue))
                    conf_name == BulkConference(paper, f.bulkArg)
                IN  call' = [call EXCEPT ![p] =
                        [f EXCEPT !.pc = "dp_exists", !.paper = paper, !.conf = conf_name,
                                  !.out = OutputPath(paper, conf_name)]]
    /\ UNCHANGED <<disk, store, exVars, rcVars, vdVars, mtVars>>

\* download_paper lines 23-27 (download_paper_from_url lines 53-57).
DpExists(p) ==
    /\ call[p].pc = "dp_exists"
    /\ LET f == [call[p] EXCEPT !.startAbsent = ~Exists(call[p].out)]
       IN  call' = [call EXCEPT ![p] =
                IF Exists(f.out) THEN Returned(f, FALSE, "PDF already exists locally")
                ELSE IF f.op = "download_paper_from_url" THEN [f EXCEPT !.pc = "url_norm"]
                ELSE [f EXCEPT !.pc = "search"]]
    /\ UNCHANGED <<disk, store, exVars, rcVars, vdVars, mtVars>>

\* search_and_download line 120: search_paper, whose request may fail.
SearchPaper(p) ==
    /\ call[p].pc = "search"
    /\ LET f == call[p]
       IN  \/ \E resp \in IndexResponses :
                call' = [call EXCEPT ![p] =
                    [f EXCEPT !.pc = "gate", !.result = search_paper(f.paper.title, resp),
                              !.entries = resp,
                              !.trace = Stage(f, "search")]]
           \/ call' = [call EXCEPT ![p] =
                    [f EXCEPT !.pc = "gate", !.result = NoResult,
                              !.trace = Stage(f, "search")]]
    /\ UNCHANGED <<disk, store, exVars, rcVars, vdVars, mtVars>>

\* search_and_download lines 122-126, returned through download_paper 34-35.
Gate(p) ==
    /\ call[p].pc = "gate"
    /\ LET f == [call[p] EXCEPT !.trace = Stage(call[p], "gate")]
       IN  call' = [call EXCEPT ![p] =
                IF ~f.result.found THEN Returned(f, FALSE, "Paper not found on arXiv")
                ELSE IF BelowMinSimilarity(f.result.similarity)
                     THEN Returned(f, FALSE, "Low similarity")
                ELSE [f EXCEPT !.pc = "sleep"]]
    /\ UNCHANGED <<disk, store, exVars, rcVars, vdVars, mtVars>>

\* search_and_download line 128: time.sleep(self.delay), then download_pdf.
Sleep(p) ==
    /\ call[p].pc = "sleep"
    /\ call' = [call EXCEPT ![p] =
            [call[p] EXCEPT !.pc = "dl_get", !.dl_url = call[p].result.pdf_url,
                            !.trace = Stage(call[p], "sleep")]]
    /\ UNCHANGED <<disk, store, exVars, rcVars, vdVars, mtVars>>

\* download_from_url lines 140-145: the URL is normalized, then download_pdf.
UrlNorm(p) ==
    /\ call[p].pc = "url_norm"
    /\ call' = [call EXCEPT ![p] =
            [call[p] EXCEPT !.pc = "dl_get", !.dl_url = NormalizeUrl(call[p].url)]]
    /\ UNCHANGED <<disk, store, exVars, rcVars, vdVars, mtVars>>

\* download_pdf lines 91-98: the request; an error status, a refused
\* connection or a timeout raises.
DlGet(p) ==
    /\ call[p].pc = "dl_get"
    /\ \E raised \in BOOLEAN :
        call' = [call EXCEPT ![p] =
            [call[p] EXCEPT !.pc = IF raised THEN "dl_except" ELSE "dl_write",
                            !.trace = Stage(call[p], "get")]]
    /\ UNCHANGED <<disk, store, exVars, rcVars, vdVars, mtVars>>

\* download_pdf lines 100-102: the file is opened for writing and the body
\* streamed into it.  The open may fail, and the stream may break midway.
DlWrite(p) ==
    /\ call[p].pc = "dl_write"
    /\ LET f == [call[p] EXCEPT !.trace = Stage(call[p], "write")]
       IN  \/ \E n \in BodySizes :
                /\ disk' = [disk EXCEPT ![f.out] = [size |-> n, origin |-> p]]
                /\ call' = [call EXCEPT ![p] = [f EXCEPT !.pc = "dl_stat"]]
           \/ \E n \in PartialSizes :
                /\ disk' = [disk EXCEPT ![f.out] = [size |-> n, origin |-> p]]
                /\ call' = [call EXCEPT ![p] = [f EXCEPT !.pc = "dl_except"]]
           \/ /\ disk' = disk
              /\ call' = [call EXCEPT ![p] = [f EXCEPT !.pc = "dl_except"]]
    /\ UNCHANGED <<store, exVars, rcVars, vdVars, mtVars>>

\* A defect: a file of exactly the minimum size is dropped too.
UndersizedOrMinimum(size) == size <= MinPdfSize

\* The size test of download_pdf line 104.
Undersized(size) == size < MinPdfSize

\* download_pdf lines 104-109: the size guard.  stat() raises when the file
\* is gone.
DlStat(p) ==
    /\ call[p].pc = "dl_stat"
    /\ LET f == call[p]
       IN  IF ~Exists(f.out)
           THEN /\ disk' = disk
                /\ call' = [call EXCEPT ![p] = [f EXCEPT !.pc = "dl_except"]]
           ELSE IF Undersized(disk[f.out].size)
           THEN /\ disk' = Unlink(f.out)
                /\ call' = [call EXCEPT ![p] = [f EXCEPT !.pc = "dl_done", !.dl_ok = FALSE]]
           ELSE /\ disk' = disk
                /\ call' = [call EXCEPT ![p] = [f EXCEPT !.pc = "dl_done", !.dl_ok = TRUE]]
    /\ UNCHANGED <<store, exVars, rcVars, vdVars, mtVars>>

\* download_pdf lines 111-115: the handler removes the file if there is one.
DlExcept(p) ==
    /\ call[p].pc = "dl_except"
    /\ disk' = IF Exists(call[p].out) THEN Unlink(call[p].out) ELSE disk
    /\ call' = [call EXCEPT ![p] = [call[p] EXCEPT !.pc = "dl_done", !.dl_ok = FALSE]]
    /\ UNCHANGED <<store, exVars, rcVars, vdVars, mtVars>>

\* A defect: the service goes on whatever the downloader reported.
FailedNever(success) == FALSE

\* if not success (download_paper line 34, download_paper_from_url line 61)
Failed(success) == ~success

\* search_and_download lines 132-135 (download_from_url lines 147-150), then
\* download_paper lines 34-37 (download_paper_from_url lines 61-62).  A
\* download_from_url call made on the downloader itself returns here.
DlDone(p) ==
    /\ call[p].pc = "dl_done"
    /\ LET f == call[p]
           manual == f.op \in {"download_paper_from_url", "download_from_url"}
           message == IF f.dl_ok
                      THEN IF manual THEN "Downloaded from URL" ELSE "Downloaded from arXiv"
                      ELSE IF manual THEN "Failed to download PDF from URL"
                           ELSE "Failed to download PDF"
       IN  call' = [call EXCEPT ![p] =
                IF f.op = "download_from_url"
                THEN [f EXCEPT !.pc = "dl_ret", !.success = f.dl_ok, !.message = message]
                ELSE IF Failed(f.dl_ok) THEN Returned(f, FALSE, message)
                ELSE [f EXCEPT !.pc = "ex_exists", !.message = message,
                               !.pdf_url = IF manual THEN f.url ELSE f.result.pdf_url]]
    /\ UNCHANGED <<disk, store, exVars, rcVars, vdVars, mtVars>>

\* extract_detailed_overview lines 21-22.
ExExists(p) ==
    /\ call[p].pc = "ex_exists"
    /\ call' = [call EXCEPT ![p] =
            IF ~Exists(call[p].out)
            THEN [call[p] EXCEPT !.pc = "dp_check", !.overview = None]
            ELSE [call[p] EXCEPT !.pc = "ex_text"]]
    /\ UNCHANGED <<disk, store, exVars, rcVars, vdVars, mtVars>>

\* A defect: a text of exactly the minimum length is refused too.
InsufficientOrMinimumText(len) == len <= MinTextLen

\* The length test of extract_detailed_overview line 27.
InsufficientText(len) == len < MinTextLen

\* extract_detailed_overview lines 25-29: the text of the leading pages (empty
\* when reading the PDF fails, as it does when the file is no longer there)
\* and the minimum-length test.
ExText(p) ==
    /\ call[p].pc = "ex_text"
    /\ \E len \in (IF Exists(call[p].out) THEN TextLens ELSE {0}) :
        call' = [call EXCEPT ![p] =
            IF InsufficientText(len)
            THEN [call[p] EXCEPT !.pc = "dp_check", !.overview = None, !.text_len = len,
                                 !.trace = Stage(call[p], "text")]
            ELSE [call[p] EXCEPT !.pc = "ex_gen", !.text_len = len,
                                 !.trace = Stage(call[p], "text")]]
    /\ UNCHANGED <<disk, store, exVars, rcVars, vdVars, mtVars>>

\* extract_detailed_overview lines 48-60: the generation call; a failed call
\* (or an exception) gives None, a successful one the stripped response.
ExGenerate(p) ==
    /\ call[p].pc = "ex_gen"
    /\ \E overview \in Overviews \cup {None} :
        call' = [call EXCEPT ![p] =
            [call[p] EXCEPT !.pc = "dp_check", !.overview = overview,
                            !.trace = Stage(call[p], "generate")]]
    /\ UNCHANGED <<disk, store, exVars, rcVars, vdVars, mtVars>>

\* A defect: only a missing overview counts as none.
IsNone(text) == text = None

\* Python's truth value of an Optional[str].
Falsy(text) == text = None \/ text = ""

\* download_paper lines 42-44 (download_paper_from_url lines 67-69): without
\* an overview the downloaded file is removed; unlink() raises when the file
\* is not there.
DpCheck(p) ==
    /\ call[p].pc = "dp_check"
    /\ LET f == call[p]
       IN  IF Falsy(f.overview)
           THEN IF Exists(f.out)
                THEN /\ disk' = Unlink(f.out)
                     /\ call' = [call EXCEPT ![p] =
                            Returned(f, FALSE, "Failed to extract overview from PDF")]
                ELSE /\ disk' = disk
                     /\ call' = [call EXCEPT ![p] =
                            [f EXCEPT !.pc = "dp_raised", !.message = "FileNotFoundError"]]
           ELSE /\ disk' = disk
                /\ call' = [call EXCEPT ![p] = [f EXCEPT !.pc = "db_overview"]]
    /\ UNCHANGED <<store, exVars, rcVars, vdVars, mtVars>>

\* PaperDatabase.update_overview: UPDATE ... WHERE paper_id = ?; returns False
\* (and changes nothing) when the statement raises.  The caller ignores the
\* value returned.
update_overview(paper_id, overview, raises) ==
    IF raises \/ paper_id \notin DOMAIN store THEN store
    ELSE [store EXCEPT ![paper_id].overview = overview]

\* PaperDatabase.update_pdf_info, likewise.
update_pdf_info(paper_id, pdf_path, pdf_url, raises) ==
    IF raises \/ paper_id \notin DOMAIN store THEN store
    ELSE [store EXCEPT ![paper_id].pdf_found = TRUE, ![paper_id].pdf_path = pdf_path,
                       ![paper_id].pdf_url = pdf_url]

\* download_paper line 46 (download_paper_from_url line 71).
DbOverview(p) ==
    /\ call[p].pc = "db_overview"
    /\ \E raises \in BOOLEAN :
        store' = update_overview(call[p].paper.paper_id, call[p].overview, raises)
    /\ call' = [call EXCEPT ![p] =
            [call[p] EXCEPT !.pc = "db_pdfinfo", !.trace = Stage(call[p], "update_overview")]]
    /\ UNCHANGED <<disk, exVars, rcVars, vdVars, mtVars>>

\* download_paper lines 47-49 (download_paper_from_url lines 72-74).
DbPdfInfo(p) ==
    /\ call[p].pc = "db_pdfinfo"
    /\ \E raises \in BOOLEAN :
        store' = update_pdf_info(call[p].paper.paper_id, call[p].out, call[p].pdf_url, raises)
    /\ call' = [call EXCEPT ![p] =
            Returned([call[p] EXCEPT !.trace = Stage(call[p], "update_pdf_info")],
                     TRUE, "Overview updated from PDF")]
    /\ UNCHANGED <<disk, exVars, rcVars, vdVars, mtVars>>

\* The frame of download_all_missing once the single-paper call it made is
\* over: the locals of that call are gone.
LoopFrame(f) ==
    [IdleFrame EXCEPT !.pc = "bulk_loop", !.op = f.op, !.bulkArg = f.bulkArg,
                      !.queue = Tail(f.queue), !.total = f.total,
                      !.nsuccess = f.nsuccess, !.nfailed = f.nfailed,
                      !.errors = f.errors]

\* The single-paper call has returned: to the UI, or to the loop of
\* download_all_missing (lines 98-106), which counts it.
DpReturn(p) ==
    /\ call[p].pc = "dp_ret"
    /\ LET f == call[p]
       IN  call' = [call EXCEPT ![p] =
                IF f.op = "download_all_missing"
                THEN IF f.success
                     THEN [LoopFrame(f) EXCEPT !.nsuccess = f.nsuccess + 1]
                     ELSE [LoopFrame(f) EXCEPT
                               !.nfailed = f.nfailed + 1,
                               !.errors = Append(f.errors,
                                   [title |-> f.paper.title, error |-> f.message])]
                ELSE IdleFrame]
    /\ UNCHANGED <<disk, store, exVars, rcVars, vdVars, mtVars>>

\* download_from_url has returned (success, message) to its caller.
DownloaderReturn(p) ==
    /\ call[p].pc = "dl_ret"
    /\ call' = [call EXCEPT ![p] = IdleFrame]
    /\ UNCHANGED <<disk, store, exVars, rcVars, vdVars, mtVars>>

\* download_all_missing line 109: the statistics are returned.
BulkReturn(p) ==
    /\ call[p].pc = "bulk_ret"
    /\ call' = [call EXCEPT ![p] = IdleFrame]
    /\ UNCHANGED <<disk, store, exVars, rcVars, vdVars, mtVars>>

\* The steps of a call in progress of caller p.
Step(p) ==
    \/ BulkLoop(p)
    \/ DpExists(p)
    \/ SearchPaper(p)
    \/ Gate(p)
    \/ Sleep(p)
    \/ UrlNorm(p)
    \/ DlGet(p)
    \/ DlWrite(p)
    \/ DlStat(p)
    \/ DlExcept(p)
    \/ DlDone(p)
    \/ ExExists(p)
    \/ ExText(p)
    \/ ExGenerate(p)
    \/ DpCheck(p)
    \/ DbOverview(p)
    \/ DbPdfInfo(p)
    \/ DpReturn(p)
    \/ BulkReturn(p)

\* One call at a time: the calls are synchronous, and one starts only when no
\* other is in progress.
AcquireNext ==
    \E p \in Procs :
        \/ OthersIdle(p) /\ p = "u1" /\ CallDownloadPaper(p)
        \/ OthersIdle(p) /\ p = "u1" /\ CallDownloadPaperFromUrl(p)
        \/ OthersIdle(p) /\ p = "u1" /\ CallDownloadAllMissing(p)
        \/ Step(p)

\* The steps of a download_from_url call made on the downloader itself.
DownloaderStep(p) ==
    \/ UrlNorm(p)
    \/ DlGet(p)
    \/ DlWrite(p)
    \/ DlStat(p)
    \/ DlExcept(p)
    \/ DlDone(p)
    \/ DownloaderReturn(p)

\* The downloader used by itself, one call at a time.
DownloaderNext ==
    \E p \in Procs :
        \/ OthersIdle(p) /\ p = "u1" /\ CallDownloadFromUrl(p)
        \/ DownloaderStep(p)

\* The paper two sessions of the UI ask for at the same time.
SharedPaper == PaperOf("p1")

\* A session of main_UI calls download_paper on the DownloadService that
\* get_download_service shares between the sessions (st.cache_resource), each
\* session in its own thread.
CallSharedDownload(p) ==
    /\ call[p].pc = "idle"
    /\ call' = [call EXCEPT ![p] =
                [IdleFrame EXCEPT !.pc = "dp_exists", !.op = "download_paper",
                                  !.paper = SharedPaper,
                                  !.conf = UiConference(SharedPaper),
                                  !.out = OutputPath(SharedPaper, UiConference(SharedPaper))]]
    /\ UNCHANGED <<disk, store, exVars, rcVars, vdVars, mtVars>>

\* The steps of a download_paper call.
SharedStep(p) ==
    \/ DpExists(p)
    \/ SearchPaper(p)
    \/ Gate(p)
    \/ Sleep(p)
    \/ DlGet(p)
    \/ DlWrite(p)
    \/ DlStat(p)
    \/ DlExcept(p)
    \/ DlDone(p)
    \/ ExExists(p)
    \/ ExText(p)
    \/ ExGenerate(p)
    \/ DpCheck(p)
    \/ DbOverview(p)
    \/ DbPdfInfo(p)
    \/ DpReturn(p)

\* The calls of the sessions interleave step by step.
SharedNext ==
    \E p \in Procs :
        \/ CallSharedDownload(p)
        \/ SharedStep(p)

\* Nothing of the acquisition workflow has happened or happens.
AcquireIdle ==
    /\ store = [id \in StoreIds |-> Row(FALSE, NoPath, NoUrl, "poster")]
    /\ disk = [path \in Paths |-> NoFile]
    /\ call = [p \in Procs |-> IdleFrame]

(***************************************************************************)
(* Properties of the acquisition workflow (under SpecAcquire).             *)
(***************************************************************************)

AllIdle == \A p \in Procs : call[p].pc = "idle"

\* The elements of a sequence.
Range(seq) == {seq[i] : i \in DOMAIN seq}

\* C1.  Rollback: a download_paper or download_paper_from_url call that found
\* its destination absent when it started and returns failure leaves no file
\* at the destination.
C1_Rollback ==
    \A p \in Procs :
        (call[p].pc = "dp_ret" /\ ~call[p].success /\ call[p].startAbsent)
            => disk[call[p].out] = NoFile

\* A call that wrote the file, failed afterwards and has returned.
C1_Witness ==
    \E p \in Procs :
        /\ call[p].pc = "dp_ret"
        /\ ~call[p].success
        /\ call[p].startAbsent
        /\ "write" \in Range(call[p].trace)
        /\ call[p].message = "Failed to extract overview from PDF"
        /\ disk[call[p].out] = NoFile

\* The paths the service writes the PDF of paper q to.
DestsOf(q) == {path \in Paths : path.file = _generate_pdf_filename(q)}

\* The store marks the paper as pdf_found.
PdfFound(paper_id) == paper_id \in DOMAIN store /\ store[paper_id].pdf_found

\* C2.  File/flag agreement: between calls, for every paper the destination
\* PDF is on disk if and only if the store marks the paper as pdf_found.
C2_FileFlagAgree ==
    AllIdle =>
        \A q \in Papers :
            (\E path \in DestsOf(q) : disk[path] # NoFile) <=> PdfFound(q.paper_id)

\* n/d is below six tenths.
BelowSixTenths(sim) == 10 * sim[1] < 6 * sim[2]

\* C3.  Similarity gate: once the first hit's similarity to the query title is
\* known to be below 0.6, the run goes no further than the gate: it returns the
\* low-similarity failure, having made no download request, waited no delay
\* and created no file.
C3_SimilarityGate ==
    \A p \in Procs :
        (call[p].result.found /\ BelowSixTenths(call[p].result.similarity))
            => /\ call[p].pc \in {"gate", "dp_ret"}
               /\ call[p].pc = "dp_ret" =>
                    (~call[p].success /\ call[p].message = "Low similarity")
               /\ Range(call[p].trace) \cap {"sleep", "get", "write"} = {}
               /\ disk[call[p].out] = NoFile

\* The hit "Unrelated Survey on Databases" for the query "Vision Transformers
\* for Segmentation" has been rejected by the gate.
C3_Witness ==
    \E p \in Procs :
        /\ call[p].pc = "dp_ret"
        /\ call[p].paper.title = TVision
        /\ call[p].result.title = <<"Unrelated", "Survey", "on", "Databases">>
        /\ call[p].message = "Low similarity"

\* C15.  Size guard boundary, as the code has it: download_pdf reports success
\* only when the file written is of 1000 bytes or more; for every size under
\* 1000 bytes the file is deleted and the download is reported as failed.
C15_SizeGuard ==
    /\ [](\A p \in Procs :
            (call[p].pc = "dl_done" /\ call[p].dl_ok)
                => (Exists(call[p].out) /\ disk[call[p].out].size >= 1000))
    /\ [][\A p \in Procs :
            (call[p].pc = "dl_stat" /\ Exists(call[p].out) /\ call'[p].pc = "dl_done")
                => IF disk[call[p].out].size < 1000
                   THEN ~call'[p].dl_ok /\ disk'[call[p].out] = NoFile
                   ELSE call'[p].dl_ok /\ disk'[call[p].out] = disk[call[p].out]]_vars

\* C15 as stated: download_pdf reports success only when the file written is
\* of more than 1000 bytes.
C15_ExceedsThousand ==
    \A p \in Procs :
        (call[p].pc = "dl_done" /\ call[p].dl_ok) => disk[call[p].out].size > 1000

\* A download of exactly 1000 bytes has been reported as a success.
C15_Witness ==
    \E p \in Procs :
        /\ call[p].pc = "dl_done"
        /\ call[p].dl_ok
        /\ disk[call[p].out] = [size |-> 1000, origin |-> p]

\* The generation calls the current single-paper run has made.
GenerationCalls(p) ==
    Cardinality({i \in DOMAIN call[p].trace : call[p].trace[i] = "generate"})

\* C16.  Summary threshold: once the text of the downloaded file is read, a
\* text of fewer than 100 characters leads to no generation call, to the
\* failure "Failed to extract overview from PDF" and to the deletion of the
\* file; a text of 100 characters or more leads to exactly one generation
\* call.
C16_SummaryThreshold ==
    \A p \in Procs :
        "text" \in Range(call[p].trace) =>
            IF call[p].text_len < 100
            THEN /\ GenerationCalls(p) = 0
                 /\ call[p].pc \in {"dp_check", "dp_raised", "dp_ret"}
                 /\ call[p].pc = "dp_ret" =>
                       /\ ~call[p].success
                       /\ call[p].message = "Failed to extract overview from PDF"
                       /\ disk[call[p].out] = NoFile
            ELSE /\ call[p].pc = "ex_gen" => GenerationCalls(p) = 0
                 /\ call[p].pc # "ex_gen" => GenerationCalls(p) = 1

\* A run whose download succeeded and whose text had 40 characters has
\* returned.
C16_Witness ==
    \E p \in Procs :
        /\ call[p].pc = "dp_ret"
        /\ call[p].dl_ok
        /\ call[p].text_len = 40
        /\ "text" \in Range(call[p].trace)
        /\ ~call[p].success
        /\ disk[call[p].out] = NoFile

\* C17.  Rate limiting: every download request of a run, whatever the variant,
\* comes after the delay.
C17_DelayBeforeDownload ==
    \A p \in Procs :
        \A i \in DOMAIN call[p].trace :
            call[p].trace[i] = "get" => \E j \in 1..(i - 1) : call[p].trace[j] = "sleep"

\* C18.  Manual-URL variant: a download_paper_from_url call never queries the
\* index and never applies the gate; it requests arxiv.org/pdf/<id>.pdf for
\* an arxiv.org/abs/<id> URL and any other URL as given; the download succeeds
\* only with a file of the minimum size, and a call that fails leaves no file
\* at its destination.
C18_ManualUrl ==
    \A p \in Procs :
        call[p].op = "download_paper_from_url" =>
            /\ Range(call[p].trace) \cap {"search", "gate"} = {}
            /\ ~call[p].result.found
            /\ "get" \in Range(call[p].trace) =>
                  call[p].dl_url = IF call[p].url.form = "abs"
                                   THEN [form |-> "pdf", id |-> call[p].url.id]
                                   ELSE call[p].url
            /\ call[p].pc = "dl_done" =>
                  IF call[p].dl_ok
                  THEN Exists(call[p].out) /\ ~Undersized(disk[call[p].out].size)
                  ELSE disk[call[p].out] = NoFile
            /\ (call[p].pc = "dp_ret" /\ ~call[p].success /\ call[p].startAbsent)
                  => disk[call[p].out] = NoFile

\* A call given an abstract-page URL has downloaded, summarised and returned
\* success.
C18_Witness ==
    \E p \in Procs :
        /\ call[p].op = "download_paper_from_url"
        /\ call[p].pc = "dp_ret"
        /\ call[p].success
        /\ call[p].url.form = "abs"
        /\ call[p].dl_url.form = "pdf"
        /\ call[p].trace = <<"get", "write", "text", "generate", "update_overview",
                             "update_pdf_info">>

\* The store papers a download_all_missing(conference_name) call has to
\* download.
LackingPdf(conference_name) ==
    {id \in StoreIds :
        /\ ~store[id].pdf_found
        /\ conference_name # None => PaperOf(id).conference_name = conference_name}

\* A download_all_missing call starts with each paper lacking a PDF once in
\* its list and with empty statistics.
BulkStarts(p) ==
    (call[p].pc = "idle" /\ call'[p].op = "download_all_missing") =>
        /\ Range(call'[p].queue) = LackingPdf(call'[p].bulkArg)
        /\ Len(call'[p].queue) = Cardinality(LackingPdf(call'[p].bulkArg))
        /\ call'[p].total = Len(call'[p].queue)
        /\ call'[p].nsuccess = 0 /\ call'[p].nfailed = 0 /\ call'[p].errors = <<>>

\* The loop runs the single-paper workflow on the next paper of its list.
BulkInvokes(p) ==
    (call[p].pc = "bulk_loop" /\ call[p].queue # <<>>) =>
        (call'[p] = call[p]
            \/ (call'[p].pc = "dp_exists" /\ call'[p].paper = PaperOf(Head(call[p].queue))))

\* When the single-paper workflow returns, the loop counts it, records a
\* failure and goes on with the rest of its list.
BulkCounts(p) ==
    (call[p].op = "download_all_missing" /\ call[p].pc = "dp_ret" /\ call'[p] # call[p]) =>
        /\ call'[p].pc = "bulk_loop"
        /\ call'[p].queue = Tail(call[p].queue)
        /\ call'[p].total = call[p].total
        /\ IF call[p].success
           THEN /\ call'[p].nsuccess = call[p].nsuccess + 1
                /\ call'[p].nfailed = call[p].nfailed
                /\ call'[p].errors = call[p].errors
           ELSE /\ call'[p].nsuccess = call[p].nsuccess
                /\ call'[p].nfailed = call[p].nfailed + 1
                /\ call'[p].errors =
                      Append(call[p].errors,
                             [title |-> call[p].paper.title, error |-> call[p].message])

\* The statistics of a download_all_missing call add up.
BulkTotals(p) ==
    call[p].op = "download_all_missing" =>
        /\ call[p].nsuccess + call[p].nfailed + Len(call[p].queue) = call[p].total
        /\ Len(call[p].errors) = call[p].nfailed
        /\ call[p].pc = "bulk_ret" =>
              (call[p].queue = <<>> /\ call[p].total = call[p].nsuccess + call[p].nfailed)
        /\ call[p].pc \notin {"bulk_loop", "bulk_ret"} =>
              (call[p].queue # <<>> /\ call[p].paper = PaperOf(Head(call[p].queue)))

\* C19.  Bulk acquisition: download_all_missing runs the single-paper workflow
\* once for each store paper lacking a PDF (of the conference named, when one
\* is), goes on after a failure, comes to its end, and returns counts with
\* total = success + failed and one (title, reason) entry per failed paper.
C19_BulkAcquisition ==
    /\ [](\A p \in Procs : BulkTotals(p))
    /\ [][\A p \in Procs : BulkStarts(p) /\ BulkInvokes(p) /\ BulkCounts(p)]_vars
    /\ \A p \in Procs :
          (call[p].op = "download_all_missing") ~> (call[p].pc = "bulk_ret")

\* A bulk run over two papers has come to its end with both failed.
C19_Witness ==
    \E p \in Procs :
        /\ call[p].pc = "bulk_ret"
        /\ call[p].total = 2
        /\ call[p].nfailed = 2
        /\ Len(call[p].errors) = 2
        /\ call[p].errors[1].title # call[p].errors[2].title

(***************************************************************************)
(* PART 2.  Response recovery (json_utils).                                *)
(*                                                                         *)
(* A text is a sequence of characters, each a one-character string.  SOH   *)
(* stands for the control character U+0001.                                *)
(***************************************************************************)

SOH == "<SOH>"

Digits == {"0", "1", "2", "3", "4", "5", "6", "7", "8", "9"}
Letters ==
    {"a", "b", "c", "d", "e", "f", "g", "h", "i", "j", "k", "l", "m", "n", "o",
     "p", "q", "r", "s", "t", "u", "v", "w", "x", "y", "z",
     "A", "B", "C", "D", "E", "F", "G", "H", "I", "J", "K", "L", "M", "N", "O",
     "P", "Q", "R", "S", "T", "U", "V", "W", "X", "Y", "Z"}

\* The regular expression class \w.
IsWordChar(c) == c \in Letters \cup Digits \cup {"_"}

\* ord(c) < 32.
IsControl(c) == c \in {SOH, "<BS>", "\t", "\n", "\r", "\f"}

\* The whitespace json.loads skips between tokens.
JsonWs == {" ", "\t", "\n", "\r"}

\* text[i .. i + Len(word) - 1] = word
StartsAt(text, i, word) ==
    /\ i + Len(word) - 1 <= Len(text)
    /\ \A k \in 1..Len(word) : text[i + k - 1] = word[k]

Min(set) == CHOOSE x \in set : \A y \in set : x <= y
Max(set) == CHOOSE x \in set : \A y \in set : x >= y

\* The first position at or after i that holds no character of class (the
\* position after the text when there is none).
SkipClass(text, i, class) ==
    Min({j \in i..Len(text) : text[j] \notin class} \cup {Len(text) + 1})

\* The first position at or after i that holds a character of class, or 0.
FindClass(text, i, class) ==
    LET hits == {j \in i..Len(text) : text[j] \in class}
    IN  IF hits = {} THEN 0 ELSE Min(hits)

\* The first position at or after i that holds c, or 0.
Find(text, i, c) == FindClass(text, i, {c})

(***************************************************************************)
(* json.loads.  A parsed value is a record [t, v]: t its JSON type and v   *)
(* its content: the characters of a string, the lexeme of a number, the    *)
(* sequence of an array's values, and for an object the function from its  *)
(* keys to their values (a dict: a repeated key keeps its last value, and  *)
(* the order of the keys does not matter to equality).                     *)
(***************************************************************************)

JNull == [t |-> "null", v |-> <<>>]
JBool(b) == [t |-> "bool", v |-> b]
JNum(lexeme) == [t |-> "num", v |-> lexeme]
JStr(chars) == [t |-> "str", v |-> chars]
JArr(values) == [t |-> "arr", v |-> values]
JObj(dict) == [t |-> "obj", v |-> dict]

EmptyDict == [k \in {} |-> JNull]
DictSet(dict, key, value) ==
    [k \in DOMAIN dict \cup {key} |-> IF k = key THEN value ELSE dict[k]]

\* A parse that got value val and stopped before position pos; a parse that
\* raised err.
Parsed(val, pos) == [ok |-> TRUE, val |-> val, pos |-> pos, err |-> ""]
Raised(err) == [ok |-> FALSE, val |-> JNull, pos |-> 0, err |-> err]
DecodeError == Raised("JSONDecodeError")

\* The interpreter's recursion limit, scaled down: json's scanner raises
\* RecursionError, which is no JSONDecodeError, for arrays and objects nested
\* deeper than the limit (about a thousand levels in CPython).
RecursionLimit == 4

\* The two-character escapes of a JSON string (\uXXXX is not in the model's
\* texts).
Unescape(c) ==
    CASE c = "\"" -> "\""
      [] c = "\\" -> "\\"
      [] c = "/" -> "/"
      [] c = "n" -> "\n"
      [] c = "t" -> "\t"
      [] c = "r" -> "\r"
      [] c = "f" -> "\f"
      [] c = "b" -> "<BS>"
      [] OTHER -> ""

\* json.decoder.scanstring (strict): the string whose opening quote is just
\* before position i; acc holds its characters so far.  A control character
\* inside the string, a bad escape or the end of the text is an error.
RECURSIVE ScanString(_, _, _)
ScanString(text, i, acc) ==
    LET stop == FindClass(text, i, {"\"", "\\", SOH, "<BS>", "\t", "\n", "\r", "\f"})
        chunk == acc \o SubSeq(text, i, stop - 1)
    IN  IF stop = 0 THEN DecodeError
        ELSE IF text[stop] = "\"" THEN Parsed(JStr(chunk), stop + 1)
        ELSE IF IsControl(text[stop]) THEN DecodeError
        ELSE IF stop + 1 > Len(text) \/ Unescape(text[stop + 1]) = "" THEN DecodeError
        ELSE ScanString(text, stop + 2, Append(chunk, Unescape(text[stop + 1])))

\* json.scanner.NUMBER_RE, (-?(?:0|[1-9]\d*))(\.\d+)?([eE][-+]?\d+)?, matched at
\* position i: the position after the match, or 0 when there is none.
NumberEnd(text, i) ==
    LET n == Len(text)
        Is(j, set) == j >= 1 /\ j <= n /\ text[j] \in set
        a == IF Is(i, {"-"}) THEN i + 1 ELSE i
        b == IF Is(a, {"0"}) THEN a + 1
             ELSE IF Is(a, Digits \ {"0"}) THEN SkipClass(text, a, Digits)
             ELSE 0
        c == IF b # 0 /\ Is(b, {"."}) /\ Is(b + 1, Digits)
             THEN SkipClass(text, b + 1, Digits) ELSE b
        d == IF Is(c, {"e", "E"}) /\ Is(c + 1, {"+", "-"}) THEN c + 2
             ELSE IF Is(c, {"e", "E"}) THEN c + 1 ELSE 0
        e == IF c # 0 /\ d # 0 /\ Is(d, Digits) THEN SkipClass(text, d, Digits) ELSE c
    IN  IF b = 0 THEN 0 ELSE e

Chars_null == <<"n", "u", "l", "l">>
Chars_true == <<"t", "r", "u", "e">>
Chars_false == <<"f", "a", "l", "s", "e">>
Chars_NaN == <<"N", "a", "N">>
Chars_Infinity == <<"I", "n", "f", "i", "n", "i", "t", "y">>

\* json.scanner's scan_once at position i, depth levels of arrays and objects
\* deep; JSONObject and JSONArray of json.decoder: the members after position
\* i of an object (acc: those read so far), the elements of an array.
RECURSIVE ScanOnce(_, _, _), ScanMembers(_, _, _, _), ScanElements(_, _, _, _)
ScanOnce(text, i, depth) ==
    IF i > Len(text) THEN DecodeError
    ELSE IF text[i] = "\"" THEN ScanString(text, i + 1, <<>>)
    ELSE IF text[i] \in {"{", "["}
         THEN IF depth >= RecursionLimit THEN Raised("RecursionError")
              ELSE LET j == SkipClass(text, i + 1, JsonWs)
                   IN  IF text[i] = "{"
                       THEN IF j <= Len(text) /\ text[j] = "}"
                            THEN Parsed(JObj(EmptyDict), j + 1)
                            ELSE ScanMembers(text, j, depth + 1, EmptyDict)
                       ELSE IF j <= Len(text) /\ text[j] = "]"
                            THEN Parsed(JArr(<<>>), j + 1)
                            ELSE ScanElements(text, j, depth + 1, <<>>)
    ELSE IF StartsAt(text, i, Chars_null) THEN Parsed(JNull, i + 4)
    ELSE IF StartsAt(text, i, Chars_true) THEN Parsed(JBool(TRUE), i + 4)
    ELSE IF StartsAt(text, i, Chars_false) THEN Parsed(JBool(FALSE), i + 5)
    ELSE IF NumberEnd(text, i) # 0
         THEN Parsed(JNum(SubSeq(text, i, NumberEnd(text, i) - 1)), NumberEnd(text, i))
    ELSE IF StartsAt(text, i, Chars_NaN) THEN Parsed(JNum(Chars_NaN), i + 3)
    ELSE IF StartsAt(text, i, Chars_Infinity) THEN Parsed(JNum(Chars_Infinity), i + 8)
    ELSE IF StartsAt(text, i, <<"-">> \o Chars_Infinity)
         THEN Parsed(JNum(<<"-">> \o Chars_Infinity), i + 9)
    ELSE DecodeError

ScanMembers(text, i, depth, acc) ==
    IF ~(i <= Len(text) /\ text[i] = "\"") THEN DecodeError
    ELSE LET key == ScanString(text, i + 1, <<>>)
         IN  IF ~key.ok THEN key
             ELSE LET colon == SkipClass(text, key.pos, JsonWs)
                  IN  IF ~(colon <= Len(text) /\ text[colon] = ":") THEN DecodeError
                      ELSE LET value == ScanOnce(text, SkipClass(text, colon + 1, JsonWs), depth)
                           IN  IF ~value.ok THEN value
                               ELSE LET dict == DictSet(acc, key.val.v, value.val)
                                        next == SkipClass(text, value.pos, JsonWs)
                                    IN  IF next > Len(text) THEN DecodeError
                                        ELSE IF text[next] = "}" THEN Parsed(JObj(dict), next + 1)
                                        ELSE IF text[next] # "," THEN DecodeError
                                        ELSE ScanMembers(text, SkipClass(text, next + 1, JsonWs),
                                                         depth, dict)

ScanElements(text, i, depth, acc) ==
    LET value == ScanOnce(text, i, depth)
    IN  IF ~value.ok THEN value
        ELSE LET values == Append(acc, value.val)
                 next == SkipClass(text, value.pos, JsonWs)
             IN  IF next > Len(text) THEN DecodeError
                 ELSE IF text[next] = "]" THEN Parsed(JArr(values), next + 1)
                 ELSE IF text[next] # "," THEN DecodeError
                 ELSE ScanElements(text, SkipClass(text, next + 1, JsonWs), depth, values)

\* json.loads(text): one value, with nothing but whitespace around it.
json_loads(text) ==
    LET value == ScanOnce(text, SkipClass(text, 1, JsonWs), 0)
    IN  IF ~value.ok THEN value
        ELSE IF SkipClass(text, value.pos, JsonWs) <= Len(text) THEN DecodeError
        ELSE value

(***************************************************************************)
(* sanitize_json_string, one operator per substitution.                    *)
(***************************************************************************)

SpaceChars == {" ", "\t", "\n", "\r", "\f"}
\* The backquote character, and the three of them that open or close a fence.
BQ == "<BQ>"
Fence == <<BQ, BQ, BQ>>

\* text[i .. i+3] is "json" in any case (re.IGNORECASE).
IsJsonWord(text, i) ==
    /\ i + 3 <= Len(text)
    /\ text[i] \in {"j", "J"}
    /\ text[i + 1] \in {"s", "S"}
    /\ text[i + 2] \in {"o", "O"}
    /\ text[i + 3] \in {"n", "N"}

\* The leftmost position at or after i where a match starts, or 0; the
\* substitutions below go from match to match, left to right, as re.sub does.
First(starts) == IF starts = {} THEN 0 ELSE Min(starts)

\* re.sub of the fence followed by json and \s* by '' (re.IGNORECASE), from
\* position i on.
RECURSIVE StripJsonFences(_, _)
StripJsonFences(text, i) ==
    LET m == First({k \in i..Len(text) : StartsAt(text, k, Fence) /\ IsJsonWord(text, k + 3)})
    IN  IF m = 0 THEN SubSeq(text, i, Len(text))
        ELSE SubSeq(text, i, m - 1) \o StripJsonFences(text, SkipClass(text, m + 7, SpaceChars))

\* re.sub of the fence and \s* by '', from position i on.
RECURSIVE StripFences(_, _)
StripFences(text, i) ==
    LET m == First({k \in i..Len(text) : StartsAt(text, k, Fence)})
    IN  IF m = 0 THEN SubSeq(text, i, Len(text))
        ELSE SubSeq(text, i, m - 1) \o StripFences(text, SkipClass(text, m + 3, SpaceChars))

\* The positions of character c in text.
PositionsOf(text, c) == {i \in 1..Len(text) : text[i] = c}

\* re.search(r'\{.*\}', text, re.DOTALL): from the first opening brace to the
\* last closing brace after it; the text itself when there is no match.
OuterBraces(text) ==
    LET opens == PositionsOf(text, "{")
        closes == PositionsOf(text, "}")
    IN  IF opens # {} /\ closes # {} /\ Max(closes) > Min(opens)
        THEN SubSeq(text, Min(opens), Max(closes))
        ELSE text

\* '([^']*)': matches at position k: the position of its closing quote, or 0.
KeyClose(text, k) ==
    LET close == IF text[k] = "'" THEN Find(text, k + 1, "'") ELSE 0
    IN  IF close # 0 /\ close + 1 <= Len(text) /\ text[close + 1] = ":" THEN close ELSE 0

\* re.sub(r"'([^']*)':", r'"\1":', text), from position i on.
RECURSIVE QuoteKeys(_, _)
QuoteKeys(text, i) ==
    LET m == First({k \in i..Len(text) : KeyClose(text, k) # 0})
        close == KeyClose(text, m)
    IN  IF m = 0 THEN SubSeq(text, i, Len(text))
        ELSE SubSeq(text, i, m - 1) \o <<"\"">> \o SubSeq(text, m + 1, close - 1)
                 \o <<"\"", ":">> \o QuoteKeys(text, close + 2)

\* ,(\s*[}\]]) matches at position k: the position of its bracket, or 0.
CommaClose(text, k) ==
    LET j == SkipClass(text, k + 1, SpaceChars)
    IN  IF text[k] = "," /\ j <= Len(text) /\ text[j] \in {"}", "]"} THEN j ELSE 0

\* re.sub(r',(\s*[}\]])', r'\1', text), from position i on.
RECURSIVE DropTrailingCommas(_, _)
DropTrailingCommas(text, i) ==
    LET m == First({k \in i..Len(text) : CommaClose(text, k) # 0})
    IN  IF m = 0 THEN SubSeq(text, i, Len(text))
        ELSE SubSeq(text, i, m - 1) \o SubSeq(text, m + 1, CommaClose(text, m))
                 \o DropTrailingCommas(text, CommaClose(text, m) + 1)

\* \bword\b matches at position i.
WordAt(text, i, word) ==
    /\ StartsAt(text, i, word)
    /\ i = 1 \/ ~IsWordChar(text[i - 1])
    /\ i + Len(word) > Len(text) \/ ~IsWordChar(text[i + Len(word)])

\* re.sub(r'\bword\b', repl, text), from position i on.
RECURSIVE ReplaceWord(_, _, _, _)
ReplaceWord(text, i, word, repl) ==
    LET m == First({k \in i..Len(text) : WordAt(text, k, word)})
    IN  IF m = 0 THEN SubSeq(text, i, Len(text))
        ELSE SubSeq(text, i, m - 1) \o repl \o ReplaceWord(text, m + Len(word), word, repl)

\* ''.join(char for char in text if ord(char) >= 32 or char in '\n\r\t')
DropControls(text) ==
    SelectSeq(text, LAMBDA c : ~IsControl(c) \/ c \in {"\n", "\r", "\t"})

\* str.strip()
Strip(text) ==
    LET keep == {i \in 1..Len(text) : text[i] \notin SpaceChars}
    IN  IF keep = {} THEN <<>> ELSE SubSeq(text, Min(keep), Max(keep))

Chars_None == <<"N", "o", "n", "e">>
Chars_True == <<"T", "r", "u", "e">>
Chars_False == <<"F", "a", "l", "s", "e">>

\* sanitize_json_string
sanitize_json_string(text) ==
    LET unfenced == StripFences(StripJsonFences(text, 1), 1)
        object == OuterBraces(unfenced)
        keys == QuoteKeys(object, 1)
        commas == DropTrailingCommas(keys, 1)
        nulls == ReplaceWord(commas, 1, Chars_None, Chars_null)
        trues == ReplaceWord(nulls, 1, Chars_True, Chars_true)
        falses == ReplaceWord(trues, 1, Chars_False, Chars_false)
    IN  Strip(DropControls(falses))

(***************************************************************************)
(* extract_json_safely: the four strategies.                               *)
(***************************************************************************)

\* The end of a match of \{[^{}]*(?:\{[^{}]*\}[^{}]*)*\} whose opening brace
\* is before position j (inner: inside a nested pair of braces), or 0: the
\* scan goes from brace to brace.
RECURSIVE BraceMatchEnd(_, _, _)
BraceMatchEnd(text, j, inner) ==
    LET b == FindClass(text, j, {"{", "}"})
    IN  IF b = 0 THEN 0
        ELSE IF text[b] = "{"
             THEN IF inner THEN 0 ELSE BraceMatchEnd(text, b + 1, TRUE)
        ELSE IF inner THEN BraceMatchEnd(text, b + 1, FALSE) ELSE b

\* re.search(r'\{[^{}]*(?:\{[^{}]*\}[^{}]*)*\}', text, re.DOTALL): the leftmost
\* match as <<first, last>>, or <<0, 0>>.
BraceSearch(text) ==
    LET m == First({i \in PositionsOf(text, "{") : BraceMatchEnd(text, i + 1, FALSE) # 0})
    IN  IF m = 0 THEN <<0, 0>> ELSE <<m, BraceMatchEnd(text, m + 1, FALSE)>>

\* chars with every newline replaced by a space.
SpaceForNewline(chars) == [k \in DOMAIN chars |-> IF chars[k] = "\n" THEN " " ELSE chars[k]]

\* :\s*"([^"]*\n[^"]*)" matches at position k: <<opening quote, closing
\* quote>>, or <<0, 0>>.
BrokenString(text, k) ==
    LET open == IF text[k] = ":" THEN SkipClass(text, k + 1, SpaceChars) ELSE 0
        close == IF open # 0 /\ open <= Len(text) /\ text[open] = "\""
                 THEN Find(text, open + 1, "\"") ELSE 0
    IN  IF close # 0 /\ "\n" \in {text[j] : j \in (open + 1)..(close - 1)}
        THEN <<open, close>> ELSE <<0, 0>>

\* re.sub(r':\s*"([^"]*\n[^"]*)"', lambda m: f': "{...}"', text), from
\* position i on.
RECURSIVE JoinLines(_, _)
JoinLines(text, i) ==
    LET m == First({k \in i..Len(text) : BrokenString(text, k)[2] # 0})
        q == BrokenString(text, m)
    IN  IF m = 0 THEN SubSeq(text, i, Len(text))
        ELSE SubSeq(text, i, m - 1) \o <<":", " ", "\"">>
                 \o SpaceForNewline(SubSeq(text, q[1] + 1, q[2] - 1))
                 \o <<"\"">> \o JoinLines(text, q[2] + 1)

\* What a strategy hands to json.loads (NoMatch: strategy 3 found no object
\* and parses nothing).
NoMatch == Raised("NoMatch")

\* The one element of a set of one.
Only(set) == CHOOSE x \in set : TRUE

\* A defect: the first strategy sanitizes before it parses.
SanitizedText(text) == sanitize_json_string(text)

\* Strategy 1: json.loads(text), the text as it is.
DirectText(text) == text

\* A defect: strategy 3 searches the text strategy 2 has cleaned.
CleanedText(text) == sanitize_json_string(text)

\* Strategy 3: re.search(..., text, re.DOTALL) reads the argument of
\* extract_json_safely, which no strategy assigns.
SearchedText(text) == text

\* What strategy number hands to json.loads: the text itself, the sanitized
\* text, the object the regular expression finds (if any), the text with its
\* broken strings joined.
Candidate(number, text) ==
    CASE number = 1 -> [found |-> TRUE, text |-> DirectText(text)]
      [] number = 2 -> [found |-> TRUE, text |-> sanitize_json_string(text)]
      [] number = 3 ->
            LET searched == SearchedText(text)
                m == BraceSearch(searched)
            IN  IF m[1] = 0 THEN [found |-> FALSE, text |-> <<>>]
                ELSE [found |-> TRUE, text |-> SubSeq(searched, m[1], m[2])]
      [] number = 4 -> [found |-> TRUE, text |-> JoinLines(text, 1)]

\* The outcome of the try block of strategy number.
Strategy(number, text) ==
    Only({IF c.found THEN json_loads(c.text) ELSE NoMatch : c \in {Candidate(number, text)}})

\* "except json.JSONDecodeError: pass": the strategy did not return and
\* raised nothing else.
FellThrough(attempt) == ~attempt.ok /\ attempt.err \in {"JSONDecodeError", "NoMatch"}

\* not text or not text.strip()
Blank(text) == Strip(text) = <<>>

\* What extract_json_safely gives its caller: a value (None is JNull), or an
\* exception.
Returns(val) == [raised |-> FALSE, val |-> val, err |-> ""]
Throws(err) == [raised |-> TRUE, val |-> JNull, err |-> err]
Outcome(attempt) == IF attempt.ok THEN Returns(attempt.val) ELSE Throws(attempt.err)

\* extract_json_safely as a function of its argument.
\* The try blocks from strategy number on, then "return None".
RECURSIVE Cascade(_, _)
Cascade(text, number) ==
    IF number > 4 THEN Returns(JNull)
    ELSE Only({IF FellThrough(attempt) THEN Cascade(text, number + 1) ELSE Outcome(attempt) :
                   attempt \in {Strategy(number, text)}})

extract_json_safely(text) == IF Blank(text) THEN Returns(JNull) ELSE Cascade(text, 1)

(***************************************************************************)
(* The texts handed to extract_json_safely: what a vision model answers.   *)
(* A response is a document, a sequence of tokens, written in a style and  *)
(* wrapped; or a raw text.                                                 *)
(***************************************************************************)

Tok(t, s) == [t |-> t, s |-> s]
Open == Tok("punct", <<"{">>)
Close == Tok("punct", <<"}">>)
OpenList == Tok("punct", <<"[">>)
CloseList == Tok("punct", <<"]">>)
Sep == Tok("punct", <<",", " ">>)
TightSep == Tok("punct", <<",">>)
Key(chars) == Tok("key", chars)
Str(chars) == Tok("str", chars)
Lit(chars) == Tok("lit", chars)
Num(chars) == Tok("num", chars)

K_title == Key(<<"t", "i", "t", "l", "e">>)
K_authors == Key(<<"a", "u", "t", "h", "o", "r", "s">>)
K_overview == Key(<<"o", "v", "e", "r", "v", "i", "e", "w">>)
K_oral == Key(<<"o", "r", "a", "l">>)
K_meta == Key(<<"m", "e", "t", "a">>)
K_year == Key(<<"y", "e", "a", "r">>)
K_venue == Key(<<"v", "e", "n", "u", "e">>)
S_Foo == Str(<<"F", "o", "o">>)
AuthorsAB == <<K_authors, OpenList, Str(<<"A">>), TightSep, Str(<<"B">>), CloseList>>

\* {title: Foo, authors: [A, B], overview: null}
DocFoo == <<Open, K_title, S_Foo, Sep>> \o AuthorsAB \o <<Sep, K_overview, Lit(Chars_null), Close>>
\* A title with the word None in it.
DocNoneTitle == <<Open, K_title, Str(<<"N", "o", "n", "e", " ", "o", "f", " ", "t", "h", "e", " ", "a", "b", "o", "v", "e">>), Close>>
\* A title with a comma before a closing bracket in it.
DocCommaTitle == <<Open, K_title, Str(<<"a", ",", "]">>), Close>>
\* A title with single-quoted text and a colon in it.
DocQuoteTitle == <<Open, K_title, Str(<<"s", "a", "y", " ", "'", "x", "'", ":", " ", "y">>), Close>>
\* A title with the word True in it, and a boolean field.
DocOral == <<Open, K_title, Str(<<"T", "r", "u", "e", " ", "o", "r", " ", "F", "a", "l", "s", "e">>), Sep, K_oral, Lit(Chars_true), Close>>
\* An object one level down, and one two levels down.
DocMeta == <<Open, K_title, S_Foo, Sep, K_meta, Open, K_year, Num(<<"2", "0", "2", "5">>), Close, Close>>
DocDeep ==
    <<Open, K_title, S_Foo, Sep, K_meta, Open, K_venue, Open, K_year, Num(<<"2", "0", "2", "5">>),
      Close, Close, Close>>
\* No title; no field at all.
DocNoTitle == <<Open>> \o AuthorsAB \o <<Sep, K_oral, Lit(Chars_false), Close>>
DocEmpty == <<Open, Close>>

Docs ==
    {DocFoo, DocNoneTitle, DocCommaTitle, DocQuoteTitle, DocOral, DocMeta, DocDeep, DocNoTitle,
     DocEmpty}

\* json: JSON.  python: a Python literal (single quotes, None/True/False).
\* pykeys: single-quoted keys and Python literals, double-quoted strings.
\* comma: JSON with a comma before the last brace.
Styles == {"json", "python", "pykeys", "comma"}

PyLiteral(chars) ==
    CASE chars = Chars_null -> Chars_None
      [] chars = Chars_true -> Chars_True
      [] chars = Chars_false -> Chars_False

RenderToken(tok, style) ==
    CASE tok.t = "punct" -> tok.s
      [] tok.t = "num" -> tok.s
      [] tok.t = "key" ->
            IF style \in {"python", "pykeys"} THEN <<"'">> \o tok.s \o <<"'", ":", " ">>
            ELSE <<"\"">> \o tok.s \o <<"\"", ":", " ">>
      [] tok.t = "str" ->
            IF style = "python" THEN <<"'">> \o tok.s \o <<"'">>
            ELSE <<"\"">> \o tok.s \o <<"\"">>
      [] tok.t = "lit" ->
            IF style \in {"python", "pykeys"} THEN PyLiteral(tok.s) ELSE tok.s

RECURSIVE RenderFrom(_, _, _)
RenderFrom(doc, k, style) ==
    IF k > Len(doc) THEN <<>>
    ELSE (IF k = Len(doc) /\ style = "comma" /\ Len(doc) > 2 THEN <<",">> ELSE <<>>)
             \o RenderToken(doc[k], style) \o RenderFrom(doc, k + 1, style)

Render(doc, style) == RenderFrom(doc, 1, style)

\* A string of the document holds a quote character.
HasQuote(doc) == \E k \in 1..Len(doc) : doc[k].t \in {"key", "str"} /\ "'" \in {doc[k].s[j] : j \in 1..Len(doc[k].s)}

Wraps == {"bare", "json_fence", "fence", "prose_fence", "prose"}
Chars_json == <<"j", "s", "o", "n">>
Chars_Intro == <<"H", "e", "r", "e", "'", "s", " ", "t", "h", "e", " ", "J", "S", "O", "N", ":">>
Chars_Outro == <<"H", "o", "p", "e", " ", "t", "h", "i", "s", " ", "h", "e", "l", "p", "s", ".">>

Wrap(body, wrap) ==
    CASE wrap = "bare" -> body
      [] wrap = "json_fence" -> Fence \o Chars_json \o <<"\n">> \o body \o <<"\n">> \o Fence
      [] wrap = "fence" -> Fence \o <<"\n">> \o body \o <<"\n">> \o Fence
      [] wrap = "prose_fence" ->
            Chars_Intro \o <<"\n">> \o Fence \o Chars_json \o <<"\n">> \o body \o <<"\n">> \o Fence
      [] wrap = "prose" -> Chars_Intro \o <<" ">> \o body \o <<" ">> \o Chars_Outro

\* depth opening brackets, a number, depth closing brackets.
Nested(depth) ==
    [k \in 1..(2 * depth + 1) |-> IF k <= depth THEN "[" ELSE IF k = depth + 1 THEN "1" ELSE "]"]

RawTexts ==
    {<<>>, <<" ", "\n">>,
     <<"[", "1", ",", " ", "2", "]">>,
     <<"\"", "s", "\"">>,
     <<"1">>,
     <<"t", "r", "u", "e">>,
     <<"n", "u", "l", "l">>,
     <<"I", " ", "s", "e", "e", " ", "a", " ", "p", "o", "s", "t", "e", "r", ".">>,
     <<"{", "\"", "t", "i", "t", "l", "e", "\"", ":", " ", "\"", "F", "o", "o", "\"">>,
     <<"{", "\"", "t", "i", "t", "l", "e", "\"", ":", " ", "\"", "D", "e", "e", "p", "\n", "N", "e", "t", "s", "\"", "}">>,
     <<"{", "\"", "t", "i", "t", "l", "e", "\"", ":", " ", "\"", "F", "o", "o", "\"", "}", " ", "{", "\"", "t", "i", "t", "l", "e", "\"", ":", " ", "\"", "B", "a", "r", "\"", "}">>,
     <<"{", "\"", "t", "i", "t", "l", "e", "\"", ":", " ", "\"", "x", SOH, "y", "\"", "}">>,
     <<"{", "\"", "a", "\"", ":", " ", "{", "\"", "b", "\"", ":", " ", "{", "\"", "c", "\"", ":", " ", "1", "}", "}", "}", " ", "{", "}">>,
     <<"{", "'", "t", "'", ":", " ", "1", "}", " ", "{", "\"", "u", "\"", ":", " ", "2", "}">>,
     <<"{", "\"", "t", "i", "t", "l", "e", "\"", ":", " ", "\"", "F", "o", "o", "\"", "}", " ", "{", "'", "t", "'", ":", " ", "1", "}">>,
     Fence \o <<"\n">> \o <<"[", "1", ",", "2", "]">> \o <<"\n">> \o Fence,
     Nested(RecursionLimit), Nested(RecursionLimit + 1), Nested(RecursionLimit + 2),
     Chars_Intro \o <<" ">> \o Nested(RecursionLimit + 2),
     <<"{", "\"", "a", "\"", ":">> \o Nested(RecursionLimit + 1) \o <<"}">>}

NoDoc == <<>>
Inputs ==
    {[doc |-> doc, style |-> style, wrap |-> wrap, raw |-> <<>>] :
        doc \in Docs, style \in Styles, wrap \in Wraps}
    \cup {[doc |-> NoDoc, style |-> "raw", wrap |-> "bare", raw |-> raw] : raw \in RawTexts}

\* Python has no such literal as a quoted string holding its own quote.
Writable(input) == input.style = "python" => ~HasQuote(input.doc)

TextOf(input) ==
    IF input.style = "raw" THEN input.raw ELSE Wrap(Render(input.doc, input.style), input.wrap)

(***************************************************************************)
(* extract_json_safely, strategy by strategy.  rc.tried lists the          *)
(* strategies run so far, rc.attempts what each handed to json.loads and   *)
(* what came of it; rc.ret is what the caller gets.                        *)
(***************************************************************************)

NoInput == [doc |-> NoDoc, style |-> "raw", wrap |-> "bare", raw |-> <<>>]
RcIdleFrame ==
    [pc |-> "idle", input |-> NoInput, text |-> <<>>, tried |-> <<>>, attempts |-> <<>>,
     ret |-> Returns(JNull)]
RcIdle == rc = RcIdleFrame

\* A caller passes a text.
CallRecover ==
    /\ rc.pc = "idle"
    /\ \E input \in Inputs :
        /\ Writable(input)
        /\ rc' = [RcIdleFrame EXCEPT !.pc = "guard", !.input = input, !.text = TextOf(input)]
    /\ UNCHANGED <<dlVars, exVars, vdVars, mtVars>>

\* if not text or not text.strip(): return None
RecoverGuard ==
    /\ rc.pc = "guard"
    /\ rc' = IF Blank(rc.text) THEN [rc EXCEPT !.pc = "returned", !.ret = Returns(JNull)]
             ELSE [rc EXCEPT !.pc = "direct"]
    /\ UNCHANGED <<dlVars, exVars, vdVars, mtVars>>

\* One try block: the value returned, the exception that escapes, or on to
\* the next strategy.
Try(number, attempt, next) ==
    rc' = [rc EXCEPT !.tried = Append(@, number),
                     !.attempts = Append(@, [handed |-> Candidate(number, rc.text),
                                             outcome |-> attempt]),
                     !.pc = IF FellThrough(attempt) THEN next
                            ELSE IF attempt.ok THEN "returned" ELSE "raised",
                     !.ret = IF FellThrough(attempt) THEN @ ELSE Outcome(attempt)]

\* Strategy 1: direct parse.
TryDirect ==
    /\ rc.pc = "direct"
    /\ \E attempt \in {Strategy(1, rc.text)} : Try(1, attempt, "sanitized")
    /\ UNCHANGED <<dlVars, exVars, vdVars, mtVars>>

\* Strategy 2: sanitize and parse.
TrySanitized ==
    /\ rc.pc = "sanitized"
    /\ \E attempt \in {Strategy(2, rc.text)} : Try(2, attempt, "braces")
    /\ UNCHANGED <<dlVars, exVars, vdVars, mtVars>>

\* Strategy 3: extract a JSON object with the regular expression.
TryBraces ==
    /\ rc.pc = "braces"
    /\ \E attempt \in {Strategy(3, rc.text)} : Try(3, attempt, "joined")
    /\ UNCHANGED <<dlVars, exVars, vdVars, mtVars>>

\* Strategy 4: fix newlines in string values.
TryJoined ==
    /\ rc.pc = "joined"
    /\ \E attempt \in {Strategy(4, rc.text)} : Try(4, attempt, "give_up")
    /\ UNCHANGED <<dlVars, exVars, vdVars, mtVars>>

\* return None
GiveUp ==
    /\ rc.pc = "give_up"
    /\ rc' = [rc EXCEPT !.pc = "returned", !.ret = Returns(JNull)]
    /\ UNCHANGED <<dlVars, exVars, vdVars, mtVars>>

\* The caller has the value or the exception.
RecoverDone ==
    /\ rc.pc \in {"returned", "raised"}
    /\ rc' = RcIdleFrame
    /\ UNCHANGED <<dlVars, exVars, vdVars, mtVars>>

RecoverNext ==
    \/ CallRecover
    \/ RecoverGuard
    \/ TryDirect
    \/ TrySanitized
    \/ TryBraces
    \/ TryJoined
    \/ GiveUp
    \/ RecoverDone

(***************************************************************************)
(* PART 3.  Validation of a recovered structure: validate_paper_data and   *)
(* the PaperMetadata that _parse_response builds from it.                  *)
(***************************************************************************)

Chars_Untitled == <<"U", "n", "t", "i", "t", "l", "e", "d">>

\* str(value) of a parsed scalar.  The numbers of the model are integers
\* written without sign or leading zero, whose str() is the lexeme.
PyStr(val) ==
    CASE val.t = "str" -> val.v
      [] val.t = "num" -> val.v
      [] val.t = "null" -> Chars_None
      [] val.t = "bool" -> IF val.v THEN Chars_True ELSE Chars_False

\* The number written is zero: no digit but 0 before the exponent.
IsZero(lexeme) ==
    LET exps == {k \in 1..Len(lexeme) : lexeme[k] \in {"e", "E"}}
        last == IF exps = {} THEN Len(lexeme) ELSE Min(exps) - 1
    IN  \A k \in 1..last : lexeme[k] \notin (Digits \ {"0"})

\* Python's truth value of a parsed value.
Truthy(val) ==
    CASE val.t = "null" -> FALSE
      [] val.t = "bool" -> val.v
      [] val.t = "num" -> ~IsZero(val.v)
      [] val.t = "str" -> val.v # <<>>
      [] val.t = "arr" -> val.v # <<>>
      [] val.t = "obj" -> DOMAIN val.v # {}

\* dict.get(key, default)
DictGet(dict, key, default) == IF key \in DOMAIN dict THEN dict[key] ELSE default

\* str(data.get('title', 'Untitled'))
TitleOf(dict) == PyStr(DictGet(dict, K_title.s, JStr(Chars_Untitled)))

\* data.get('authors') if it is a list, else []; then [a for a in ... if a]
AuthorsOf(dict) ==
    LET authors == DictGet(dict, K_authors.s, JNull)
    IN  SelectSeq(IF authors.t = "arr" THEN authors.v ELSE <<>>, Truthy)

\* data.get('overview') if it is a str, else None; '' becomes None
OverviewOf(dict) ==
    LET overview == DictGet(dict, K_overview.s, JNull)
    IN  IF overview.t = "str" /\ overview.v # <<>> THEN overview ELSE JNull

\* json_utils.validate_paper_data on a dict: the title as characters, the
\* authors as the list of parsed values kept, the overview as a string or None.
validate_paper_data(dict) ==
    [title |-> TitleOf(dict), authors |-> AuthorsOf(dict), overview |-> OverviewOf(dict)]

\* Author(name=author_name): pydantic takes a str; a number or a boolean is
\* turned into a str by pydantic 1 and refused by pydantic 2 (strict says
\* which one is installed); a list or a dict is refused by both.
AuthorRefused(author_name, strict) ==
    CASE author_name.t = "str" -> FALSE
      [] author_name.t \in {"num", "bool"} -> strict
      [] OTHER -> TRUE

NoMetadata == [found |-> FALSE, title |-> <<>>, authors |-> <<>>, overview |-> JNull]

\* _parse_response lines 153-168: the Author objects, then the PaperMetadata;
\* a ValidationError is caught with every other Exception and gives None.
PaperOfValidated(validated, strict) ==
    IF \E k \in DOMAIN validated.authors : AuthorRefused(validated.authors[k], strict)
    THEN NoMetadata
    ELSE [found |-> TRUE,
          title |-> validated.title,
          authors |-> [k \in DOMAIN validated.authors |-> PyStr(validated.authors[k])],
          overview |-> validated.overview]

\* _parse_response lines 140-173 on what extract_json_safely gave: None when
\* it gave None, raised, or gave what is no dict (validate_paper_data then
\* raises AttributeError).
PaperOfData(data, strict) ==
    IF data.raised THEN NoMetadata
    ELSE IF data.val.t # "obj" THEN NoMetadata
    ELSE PaperOfValidated(validate_paper_data(data.val.v), strict)

\* ImageExtractor._parse_response
_parse_response(response_text, strict) ==
    Only({PaperOfData(data, strict) : data \in {extract_json_safely(response_text)}})

\* The values a recovered structure can hold under "title", "authors" and
\* "overview"; Missing is the key left out.
Missing == [t |-> "missing", v |-> <<>>]
Chars_Text == <<"t", "e", "x", "t">>
TitleChoices ==
    <<Missing, JNull, JStr(S_Foo.s), JStr(<<>>), JNum(<<"5">>), JBool(TRUE)>>
AuthorsChoices ==
    <<Missing, JNull, JStr(<<"A">>), JArr(<<>>),
      JArr(<<JStr(<<"A">>), JStr(<<"B">>)>>),
      JArr(<<JStr(<<"B">>), JStr(<<>>), JStr(<<"A">>), JNull, JStr(<<"B">>)>>),
      JArr(<<JNum(<<"0">>), JBool(FALSE), JArr(<<>>), JObj(EmptyDict)>>),
      JArr(<<JStr(<<"A">>), JNum(<<"5">>)>>),
      JArr(<<JObj(DictSet(EmptyDict, <<"n", "a", "m", "e">>, JStr(<<"A">>)))>>)>>
OverviewChoices ==
    <<Missing, JNull, JStr(<<>>), JStr(Chars_Text), JNum(<<"5">>), JArr(<<JStr(Chars_Text)>>)>>

\* The dict with the three values under their keys.
MakeData(title, authors, overview) ==
    LET Field(key) ==
            IF key = K_title.s THEN title
            ELSE IF key = K_authors.s THEN authors
            ELSE overview
        keys == {key \in {K_title.s, K_authors.s, K_overview.s} : Field(key).t # "missing"}
    IN  JObj([key \in keys |-> Field(key)])

\* What extract_json_safely can hand to _parse_response besides a dict: None,
\* and a list (see C10).
OtherData == <<JNull, JArr(<<JNum(<<"1">>), JNum(<<"2">>)>>)>>

NoValidated == [title |-> <<>>, authors |-> <<>>, overview |-> JNull]
VdIdleFrame ==
    [pc |-> "idle", data |-> JNull, strict |-> FALSE, validated |-> NoValidated,
     names |-> <<>>, paper |-> NoMetadata]
VdIdle == vd = VdIdleFrame

\* _parse_response line 140: extract_json_safely has returned a dict.
CallParseDict ==
    /\ vd.pc = "idle"
    /\ \E i \in DOMAIN TitleChoices, j \in DOMAIN AuthorsChoices, k \in DOMAIN OverviewChoices,
          strict \in BOOLEAN :
        vd' = [VdIdleFrame EXCEPT
                 !.pc = "check", !.strict = strict,
                 !.data = MakeData(TitleChoices[i], AuthorsChoices[j], OverviewChoices[k])]
    /\ UNCHANGED <<dlVars, exVars, rcVars, mtVars>>

\* _parse_response line 140: extract_json_safely has returned None or a list.
CallParseOther ==
    /\ vd.pc = "idle"
    /\ \E i \in DOMAIN OtherData, strict \in BOOLEAN :
        vd' = [VdIdleFrame EXCEPT !.pc = "check", !.strict = strict, !.data = OtherData[i]]
    /\ UNCHANGED <<dlVars, exVars, rcVars, mtVars>>

\* _parse_response lines 142-145: if data is None: return None
ParseCheck ==
    /\ vd.pc = "check"
    /\ vd' = [vd EXCEPT !.pc = IF vd.data.t = "null" THEN "ret" ELSE "validate"]
    /\ UNCHANGED <<dlVars, exVars, rcVars, mtVars>>

\* _parse_response line 148: data = validate_paper_data(data); data.get raises
\* AttributeError on what is no dict.
ParseValidate ==
    /\ vd.pc = "validate"
    /\ vd' = IF vd.data.t # "obj" THEN [vd EXCEPT !.pc = "except"]
             ELSE [vd EXCEPT !.pc = "authors", !.validated = validate_paper_data(vd.data.v)]
    /\ UNCHANGED <<dlVars, exVars, rcVars, mtVars>>

\* _parse_response lines 154-157: one Author per name kept.
ParseAuthors ==
    /\ vd.pc = "authors"
    /\ LET authors == vd.validated.authors
       IN  vd' = IF \E k \in DOMAIN authors : AuthorRefused(authors[k], vd.strict)
                 THEN [vd EXCEPT !.pc = "except"]
                 ELSE [vd EXCEPT !.pc = "paper",
                                 !.names = [k \in DOMAIN authors |-> PyStr(authors[k])]]
    /\ UNCHANGED <<dlVars, exVars, rcVars, mtVars>>

\* _parse_response lines 160-168: the PaperMetadata.
ParsePaper ==
    /\ vd.pc = "paper"
    /\ vd' = [vd EXCEPT !.pc = "ret", !.paper = PaperOfValidated(vd.validated, vd.strict)]
    /\ UNCHANGED <<dlVars, exVars, rcVars, mtVars>>

\* _parse_response lines 170-173: except Exception: return None
ParseExcept ==
    /\ vd.pc = "except"
    /\ vd' = [vd EXCEPT !.pc = "ret", !.paper = NoMetadata]
    /\ UNCHANGED <<dlVars, exVars, rcVars, mtVars>>

\* The caller has the PaperMetadata or None.
ParseReturn ==
    /\ vd.pc = "ret"
    /\ vd' = VdIdleFrame
    /\ UNCHANGED <<dlVars, exVars, rcVars, mtVars>>

ValidateNext ==
    \/ CallParseDict
    \/ CallParseOther
    \/ ParseCheck
    \/ ParseValidate
    \/ ParseAuthors
    \/ ParsePaper
    \/ ParseExcept
    \/ ParseReturn


(***************************************************************************)
(* PART 4.  ImageExtractor: extract_from_image and its attempts.           *)
(***************************************************************************)

ProbeError == "Cannot connect to Ollama. Is it running?"
ParseError == "Failed to parse model response as JSON"
\* The errors OllamaClient.analyze_image reports.
BackendErrors == {"Cannot connect to Ollama. Is it running?", "Request timed out after 300s"}

\* What the backend answers (response['response']).
Responses ==
    {TextOf([doc |-> DocFoo, style |-> "json", wrap |-> "bare", raw |-> <<>>]),
     TextOf([doc |-> DocFoo, style |-> "python", wrap |-> "prose_fence", raw |-> <<>>]),
     TextOf([doc |-> DocFoo, style |-> "pykeys", wrap |-> "json_fence", raw |-> <<>>]),
     TextOf([doc |-> DocNoTitle, style |-> "json", wrap |-> "bare", raw |-> <<>>]),
     <<"I", " ", "s", "e", "e", " ", "a", " ", "p", "o", "s", "t", "e", "r", ".">>,
     <<"[", "1", ",", " ", "2", "]">>,
     Nested(RecursionLimit + 1),
     <<>>}

InitialResult ==
    [success |-> FALSE, paper_metadata |-> NoMetadata, raw_response |-> <<>>, error |-> None]
StatsInit == [processed |-> 0, successful |-> 0, failed |-> 0, json_errors |-> 0, retries |-> 0]

\* ex.attempts: one entry per analyze_image call, with the prompt it used and
\* whether the attempt succeeded.  ex.calls: extract_from_image calls made;
\* ex.probe_failures: those of them whose probe failed.
ExIdleFrame ==
    [pc |-> "idle", retry |-> TRUE, connected |-> TRUE, result |-> InitialResult,
     attempts |-> <<>>, calls |-> 0, probe_failures |-> 0]
ExIdle == stats = StatsInit /\ ex = ExIdleFrame

Bump(counter) == stats' = [stats EXCEPT ![counter] = @ + 1]

\* extract_from_image(source_file, retry)
CallExtract ==
    /\ ex.pc = "idle"
    /\ ex.calls < MaxCalls
    /\ \E retry \in BOOLEAN :
        ex' = [ExIdleFrame EXCEPT !.pc = "probe", !.retry = retry, !.calls = ex.calls + 1,
                                  !.probe_failures = ex.probe_failures]
    /\ UNCHANGED <<stats, dlVars, rcVars, vdVars, mtVars>>

\* A defect: the outcome of the probe is ignored.
AfterProbeIgnored(connected) == "attempt1"

\* Where extract_from_image goes after check_connection.
AfterProbe(connected) == IF connected THEN "attempt1" ELSE "probe_failed"

\* self.client.check_connection()
Probe ==
    /\ ex.pc = "probe"
    /\ \E connected \in BOOLEAN :
        ex' = [ex EXCEPT !.pc = AfterProbe(connected), !.connected = connected]
    /\ UNCHANGED <<stats, dlVars, rcVars, vdVars, mtVars>>

\* A defect: a call whose probe failed is counted as processed.
ProbeCounterProcessed == "processed"

\* The counter of a failed probe (line 45).
ProbeCounter == "failed"

\* The probe failed: the error, stats['failed'] += 1, return.
ProbeFailed ==
    /\ ex.pc = "probe_failed"
    /\ ex' = [ex EXCEPT !.pc = "ret", !.result.error = ProbeError,
                        !.probe_failures = @ + 1]
    /\ Bump(ProbeCounter)
    /\ UNCHANGED <<dlVars, rcVars, vdVars, mtVars>>

Prompt(use_simple) == IF use_simple THEN "simple" ELSE "detailed"

\* _attempt_extraction when analyze_image reports an error.
AttemptBackendError(use_simple, next) ==
    /\ \E error \in BackendErrors :
        ex' = [ex EXCEPT !.pc = next,
                         !.result = [InitialResult EXCEPT !.error = error],
                         !.attempts = Append(@, [prompt |-> Prompt(use_simple), success |-> FALSE])]
    /\ Bump("failed")
    /\ UNCHANGED <<dlVars, rcVars, vdVars, mtVars>>

\* A defect: the error is set whatever the parse gave.
AttemptErrorAlways(paper_metadata) == ParseError

\* _attempt_extraction lines 111-121: the error stays None when the metadata
\* was parsed.
AttemptError(paper_metadata) == IF paper_metadata.found THEN None ELSE ParseError

\* _attempt_extraction when analyze_image answers.
AttemptResponse(use_simple, next) ==
    /\ \E response \in Responses, strict \in BOOLEAN :
        \E paper_metadata \in {_parse_response(response, strict)} :
            /\ ex' = [ex EXCEPT
                        !.pc = next,
                        !.result = [success |-> paper_metadata.found,
                                    paper_metadata |-> paper_metadata,
                                    raw_response |-> response,
                                    error |-> AttemptError(paper_metadata)],
                        !.attempts = Append(@, [prompt |-> Prompt(use_simple),
                                                success |-> paper_metadata.found])]
            /\ Bump(IF paper_metadata.found THEN "successful" ELSE "json_errors")
    /\ UNCHANGED <<dlVars, rcVars, vdVars, mtVars>>

FirstBackendError == ex.pc = "attempt1" /\ AttemptBackendError(FALSE, "decide")
FirstResponse == ex.pc = "attempt1" /\ AttemptResponse(FALSE, "decide")
SecondBackendError == ex.pc = "attempt2" /\ AttemptBackendError(TRUE, "finish")
SecondResponse == ex.pc = "attempt2" /\ AttemptResponse(TRUE, "finish")

\* A defect: a successful first attempt is retried too.
RetryAlways(result, retry) == retry

\* if not result['success'] and retry
ShouldRetry(result, retry) == ~result.success /\ retry

\* self.stats['retries'] += 1 before the second attempt.
Decide ==
    /\ ex.pc = "decide"
    /\ IF ShouldRetry(ex.result, ex.retry)
       THEN ex' = [ex EXCEPT !.pc = "attempt2"] /\ Bump("retries")
       ELSE ex' = [ex EXCEPT !.pc = "finish"] /\ UNCHANGED stats
    /\ UNCHANGED <<dlVars, rcVars, vdVars, mtVars>>

\* self.stats['processed'] += 1
Finish ==
    /\ ex.pc = "finish"
    /\ ex' = [ex EXCEPT !.pc = "ret"]
    /\ Bump("processed")
    /\ UNCHANGED <<dlVars, rcVars, vdVars, mtVars>>

\* return result
ExtractReturn ==
    /\ ex.pc = "ret"
    /\ ex' = [ExIdleFrame EXCEPT !.calls = ex.calls, !.probe_failures = ex.probe_failures]
    /\ UNCHANGED <<stats, dlVars, rcVars, vdVars, mtVars>>

ExtractNext ==
    \/ CallExtract
    \/ Probe
    \/ ProbeFailed
    \/ FirstBackendError
    \/ FirstResponse
    \/ Decide
    \/ SecondBackendError
    \/ SecondResponse
    \/ Finish
    \/ ExtractReturn

(***************************************************************************)
(* PART 5.  The local file matcher (PDFMatcher).  Strings are sequences of *)
(* characters; a score is the fraction <<numerator, denominator>>.         *)
(***************************************************************************)

UpperCase ==
    <<"A", "B", "C", "D", "E", "F", "G", "H", "I", "J", "K", "L", "M", "N", "O",
      "P", "Q", "R", "S", "T", "U", "V", "W", "X", "Y", "Z">>
LowerCase ==
    <<"a", "b", "c", "d", "e", "f", "g", "h", "i", "j", "k", "l", "m", "n", "o",
      "p", "q", "r", "s", "t", "u", "v", "w", "x", "y", "z">>

\* str.lower()
str_lower(text) ==
    [k \in DOMAIN text |->
        IF \E u \in DOMAIN UpperCase : UpperCase[u] = text[k]
        THEN LowerCase[CHOOSE u \in DOMAIN UpperCase : UpperCase[u] = text[k]]
        ELSE text[k]]

\* str.split(): the words between runs of whitespace, from position i on.
RECURSIVE SplitFrom(_, _)
SplitFrom(text, i) ==
    LET start == SkipClass(text, i, SpaceChars)
        space == FindClass(text, start, SpaceChars)
        stop == IF space = 0 THEN Len(text) + 1 ELSE space
    IN  IF start > Len(text) THEN <<>>
        ELSE <<SubSeq(text, start, stop - 1)>> \o SplitFrom(text, stop)

\* '_'.join(words)
RECURSIVE JoinUnderscore(_)
JoinUnderscore(words) ==
    IF words = <<>> THEN <<>>
    ELSE IF Len(words) = 1 THEN words[1]
    ELSE words[1] \o <<"_">> \o JoinUnderscore(Tail(words))

\* _clean_string line 137
matcher_stop_words ==
    {<<"a">>, <<"a", "n">>, <<"t", "h", "e">>, <<"a", "n", "d">>, <<"o", "r">>, <<"b", "u", "t">>, <<"i", "n">>, <<"o", "n">>, <<"a", "t">>, <<"t", "o">>, <<"f", "o", "r">>}

\* c.isalnum() or c == '_'
IsNameChar(c) == c \in Letters \cup Digits \cup {"_"}

\* PDFMatcher._clean_string
_clean_string(text) ==
    LET words == SelectSeq(SplitFrom(str_lower(text), 1), LAMBDA w : w \notin matcher_stop_words)
    IN  SelectSeq(JoinUnderscore(words), IsNameChar)

\* PDFMatcher._generate_search_strings
_generate_search_strings(paper) ==
    LET clean_title == _clean_string(paper.title)
    IN  IF paper.authors = <<>> THEN <<clean_title>>
        ELSE LET first_author == _clean_string(paper.authors[1])
             IN  <<clean_title,
                   first_author \o <<"_">> \o clean_title,
                   clean_title \o <<"_">> \o first_author>>

\* SequenceMatcher.find_longest_match on a[alo..ahi] and b[blo..bhi] (no junk:
\* the strings are far under 200 characters): the blocks of equal characters;
\* the one taken is the longest, and of those the earliest in a, then in b.
CommonBlocks(a, alo, ahi, b, blo, bhi) ==
    {blk \in (alo..ahi) \X (blo..bhi) \X (1..(ahi - alo + 1)) :
        /\ a[blk[1]] = b[blk[2]]
        /\ blk[1] + blk[3] - 1 <= ahi
        /\ blk[2] + blk[3] - 1 <= bhi
        /\ \A m \in 0..(blk[3] - 1) : a[blk[1] + m] = b[blk[2] + m]}

LongestBlock(blocks) ==
    LET size == Max({blk[3] : blk \in blocks})
        i == Min({blk[1] : blk \in {x \in blocks : x[3] = size}})
        j == Min({blk[2] : blk \in {x \in blocks : x[3] = size /\ x[1] = i}})
    IN  <<i, j, size>>

\* SequenceMatcher.get_matching_blocks: the characters matched in all, the
\* longest block and then, in turn, what is left and right of it.
RECURSIVE MatchedChars(_, _, _, _, _, _)
MatchedChars(a, alo, ahi, b, blo, bhi) ==
    IF alo > ahi \/ blo > bhi THEN 0
    ELSE Only({IF blocks = {} THEN 0
               ELSE Only({blk[3]
                            + MatchedChars(a, alo, blk[1] - 1, b, blo, blk[2] - 1)
                            + MatchedChars(a, blk[1] + blk[3], ahi, b, blk[2] + blk[3], bhi) :
                          blk \in {LongestBlock(blocks)}}) :
               blocks \in {CommonBlocks(a, alo, ahi, b, blo, bhi)}})

\* SequenceMatcher.ratio() when both strings are empty: 1.0
RatioOfNothing == <<1, 1>>

\* SequenceMatcher.ratio(): 2.0 * matches / length, 1.0 when length is 0.
ratio(a, b) ==
    IF Len(a) + Len(b) = 0 THEN RatioOfNothing
    ELSE <<2 * MatchedChars(a, 1, Len(a), b, 1, Len(b)), Len(a) + Len(b)>>

\* PDFMatcher._calculate_similarity
matcher_calculate_similarity(str1, str2) == ratio(str_lower(str1), str_lower(str2))

\* Comparisons of two fractions with positive denominators.
FracLess(x, y) == x[1] * y[2] < y[1] * x[2]
FracLeq(x, y) == x[1] * y[2] <= y[1] * x[2]

\* A defect: a later file with the same score takes the place of the first.
ImprovesOrTies(score, best_score) == FracLeq(best_score, score)

\* score > best_score
Improves(score, best_score) == FracLess(best_score, score)

\* pdf_file.file_path.stem.lower(): the name up to its last dot, when that dot
\* is neither the first nor the last character.
Stem(name) ==
    LET dots == {k \in 2..(Len(name) - 1) : name[k] = "."}
    IN  IF dots = {} \/ name[Len(name)] = "." THEN name ELSE SubSeq(name, 1, Max(dots) - 1)

\* The papers, the file lists and the thresholds PDFMatcher is used with.
MatchPapers ==
    <<[title |-> <<"D", "e", "e", "p", " ", "N", "e", "t", "s">>, authors |-> <<<<"A", "n", "n", " ", "L", "e", "e">>>>],
      [title |-> <<"D", "e", "e", "p", " ", "N", "e", "t", "s">>, authors |-> <<>>],
      [title |-> <<"T", "h", "e", " ", "N", "e", "t", "s", "!">>, authors |-> <<>>],
      [title |-> <<"T", "h", "e">>, authors |-> <<>>]>>
FileLists ==
    <<<<>>,
      <<<<"d", "e", "e", "p", "_", "n", "e", "t", "s", "_", "v", "2", ".", "p", "d", "f">>, <<"r", "a", "n", "d", "o", "m", ".", "p", "d", "f">>>>,
      <<<<"r", "a", "n", "d", "o", "m", ".", "p", "d", "f">>, <<"d", "e", "e", "p", "_", "n", "e", "t", "s", ".", "p", "d", "f">>, <<"D", "e", "e", "p", "_", "N", "e", "t", "s", ".", "P", "D", "F">>>>,
      <<<<"d", "e", "e", "p", "_", "l", "e", "a", "r", "n", "i", "n", "g", ".", "p", "d", "f">>>>,
      <<<<"x", "y", "z", ".", "p", "d", "f">>, <<"r", "a", "n", "d", "o", "m", ".", "p", "d", "f">>>>,
      <<<<"l", "e", "e", "_", "a", "n", "n", "_", "n", "e", "t", "s", ".", "p", "d", "f">>, <<"a", "n", "n", "_", "l", "e", "e", "_", "d", "e", "e", "p", "_", "n", "e", "t", "s", ".", "p", "d", "f">>>>,
      <<<<"x", "y", "z", ".", "p", "d", "f">>>>>>
\* similarity_threshold: the default 0.6, and 0 and 1.
Thresholds == {<<6, 10>>, <<0, 1>>, <<1, 1>>}
\* The strings _calculate_similarity is called with directly.
ScoreStrings == {<<>>, <<"a", "b", "c">>, <<"x", "y", "z">>, <<"A", "B", "C">>, <<"a", "b", "d">>}

\* The lists of papers match_all_papers is called with (positions in
\* MatchPapers), and the papers of them that already have a PDF.
MatchPaperLists == {<<>>, <<2>>, <<1, 3>>, <<2, 4, 3>>}
AlreadyFound == {{}, {2}, {4}}
Chars_Unknown == <<"U", "n", "k", "n", "o", "w", "n">>
Chars_OldPath == <<"o", "l", "d", ".", "p", "d", "f">>

\* The PaperMetadata object of MatchPapers[i]: pdf_found and pdf_path have the
\* defaults of models.py lines 31-32 unless the paper already has a PDF.
PaperObject(i, found) ==
    [paper_id |-> i, title |-> MatchPapers[i].title, authors |-> MatchPapers[i].authors,
     pdf_found |-> found, pdf_path |-> IF found THEN Chars_OldPath ELSE Chars_Unknown]

\* PDFMatcher.stats as __init__ sets it (lines 21-25).
MatcherStatsInit == [papers_checked |-> 0, pdfs_matched |-> 0, no_match |-> 0]

\* The frame of a matcher call.  For match_all_papers: papers are the objects
\* of the list as they are now, passed the same objects as they were when the
\* call was made, k the position of the loop, matches the dictionary being
\* built (by position), assigned the number of times the loop has assigned
\* pdf_found / pdf_path of each paper.
NoPaperToMatch == [title |-> <<>>, authors |-> <<>>]
MtIdleFrame ==
    [pc |-> "idle", op |-> None, similarity_threshold |-> <<6, 10>>, paper |-> NoPaperToMatch,
     pdf_files |-> <<>>, search_strings |-> <<>>, f |-> 1, s |-> 1,
     best_match |-> 0, best_score |-> <<0, 1>>, ret |-> 0,
     str1 |-> <<>>, str2 |-> <<>>, score |-> <<0, 1>>,
     papers |-> <<>>, passed |-> <<>>, k |-> 1, matches |-> <<>>, assigned |-> <<>>,
     counters |-> MatcherStatsInit]
MtIdle == mt = MtIdleFrame

\* PDFMatcher(similarity_threshold).match_paper_to_pdf(paper, pdf_files)
CallMatch ==
    /\ mt.pc = "idle"
    /\ \E i \in DOMAIN MatchPapers, j \in DOMAIN FileLists, threshold \in Thresholds :
        mt' = [MtIdleFrame EXCEPT !.pc = "guard", !.op = "match_paper_to_pdf",
                                  !.similarity_threshold = threshold,
                                  !.paper = MatchPapers[i], !.pdf_files = FileLists[j],
                                  !.papers = <<MatchPapers[i]>>,
                                  !.passed = <<MatchPapers[i]>>]
    /\ UNCHANGED <<dlVars, exVars, rcVars, vdVars>>

\* match_paper_to_pdf lines 40-47: no file, no match; else the search strings
\* and best_match = None, best_score = 0.0.  best_match is the position of the
\* file in pdf_files, 0 for None.
MatchGuard ==
    /\ mt.pc = "guard"
    /\ mt' = IF mt.pdf_files = <<>> THEN [mt EXCEPT !.pc = "ret", !.ret = 0]
             ELSE [mt EXCEPT !.pc = "loop",
                             !.search_strings = _generate_search_strings(mt.paper)]
    /\ UNCHANGED <<dlVars, exVars, rcVars, vdVars>>

\* match_paper_to_pdf lines 49-59: one search string against one file.
MatchCompare ==
    /\ mt.pc = "loop"
    /\ LET pdf_name == str_lower(Stem(mt.pdf_files[mt.f]))
           last_s == mt.s = Len(mt.search_strings)
           last_f == mt.f = Len(mt.pdf_files)
       IN  \E score \in {matcher_calculate_similarity(mt.search_strings[mt.s], pdf_name)} :
             mt' = [mt EXCEPT
                      !.best_score = IF Improves(score, mt.best_score) THEN score
                                     ELSE mt.best_score,
                      !.best_match = IF Improves(score, mt.best_score) THEN mt.f
                                     ELSE mt.best_match,
                      !.s = IF last_s THEN 1 ELSE mt.s + 1,
                      !.f = IF last_s /\ ~last_f THEN mt.f + 1 ELSE mt.f,
                      !.pc = IF last_s /\ last_f THEN "decide" ELSE "loop"]
    /\ UNCHANGED <<dlVars, exVars, rcVars, vdVars>>

\* match_paper_to_pdf lines 62-65.
MatchDecide ==
    /\ mt.pc = "decide"
    /\ mt' = [mt EXCEPT !.pc = "ret",
                        !.ret = IF FracLeq(mt.similarity_threshold, mt.best_score)
                                THEN mt.best_match ELSE 0]
    /\ UNCHANGED <<dlVars, exVars, rcVars, vdVars>>

\* PDFMatcher._calculate_similarity(str1, str2), called by itself.
CallSimilarity ==
    /\ mt.pc = "idle"
    /\ \E str1 \in ScoreStrings, str2 \in ScoreStrings :
        mt' = [MtIdleFrame EXCEPT !.pc = "ret", !.op = "_calculate_similarity",
                                  !.str1 = str1, !.str2 = str2,
                                  !.score = matcher_calculate_similarity(str1, str2)]
    /\ UNCHANGED <<dlVars, exVars, rcVars, vdVars>>

\* The caller has the file (or None), or the score; inside match_all_papers
\* the caller is the loop (line 85).
MatchReturn ==
    /\ mt.pc = "ret"
    /\ mt' = IF mt.op = "match_all_papers" THEN [mt EXCEPT !.pc = "all_record"]
             ELSE MtIdleFrame
    /\ UNCHANGED <<dlVars, exVars, rcVars, vdVars>>

\* PDFMatcher(similarity_threshold).match_all_papers(papers, pdf_files),
\* line 80: matches = {}.
CallMatchAll ==
    /\ mt.pc = "idle"
    /\ \E list \in MatchPaperLists, found \in AlreadyFound, j \in DOMAIN FileLists,
          threshold \in Thresholds :
        LET papers == [n \in DOMAIN list |-> PaperObject(list[n], list[n] \in found)]
        IN  mt' = [MtIdleFrame EXCEPT !.pc = "all_loop", !.op = "match_all_papers",
                                      !.similarity_threshold = threshold,
                                      !.papers = papers, !.passed = papers,
                                      !.assigned = [n \in DOMAIN list |-> 0],
                                      !.pdf_files = FileLists[j]]
    /\ UNCHANGED <<dlVars, exVars, rcVars, vdVars>>

\* match_all_papers lines 82-85: the next paper is counted and handed to
\* match_paper_to_pdf; after the last one the loop is over.
MatchAllLoop ==
    /\ mt.pc = "all_loop"
    /\ mt' = IF mt.k > Len(mt.papers) THEN [mt EXCEPT !.pc = "all_ret"]
             ELSE [mt EXCEPT !.pc = "guard",
                             !.counters.papers_checked = @ + 1,
                             !.paper = mt.papers[mt.k],
                             !.search_strings = <<>>, !.f = 1, !.s = 1,
                             !.best_match = 0, !.best_score = <<0, 1>>, !.ret = 0]
    /\ UNCHANGED <<dlVars, exVars, rcVars, vdVars>>

\* A defect: the paper is flagged whatever match_paper_to_pdf returned.
MatchedAlways(matched_pdf) == TRUE

\* if matched_pdf (line 88): a SourceFile is true, None is not.
Matched(matched_pdf) == matched_pdf # 0

\* match_all_papers lines 86-94: the match is recorded; a matched paper is
\* counted and its pdf_found and pdf_path are assigned (the path of a file
\* that is None does not exist: None stands for it).
MatchAllRecord ==
    /\ mt.pc = "all_record"
    /\ LET matched_pdf == mt.ret
       IN  mt' = IF Matched(matched_pdf)
                 THEN [mt EXCEPT !.pc = "all_loop", !.k = @ + 1,
                                 !.matches = Append(@, matched_pdf),
                                 !.counters.pdfs_matched = @ + 1,
                                 !.papers[mt.k].pdf_found = TRUE,
                                 !.papers[mt.k].pdf_path =
                                     IF matched_pdf = 0 THEN None
                                     ELSE mt.pdf_files[matched_pdf],
                                 !.assigned[mt.k] = @ + 1]
                 ELSE [mt EXCEPT !.pc = "all_loop", !.k = @ + 1,
                                 !.matches = Append(@, matched_pdf),
                                 !.counters.no_match = @ + 1]
    /\ UNCHANGED <<dlVars, exVars, rcVars, vdVars>>

\* match_all_papers line 96: return matches.
MatchAllReturn ==
    /\ mt.pc = "all_ret"
    /\ mt' = MtIdleFrame
    /\ UNCHANGED <<dlVars, exVars, rcVars, vdVars>>

MatchNext ==
    \/ CallMatch
    \/ MatchGuard
    \/ MatchCompare
    \/ MatchDecide
    \/ CallSimilarity
    \/ MatchReturn
    \/ CallMatchAll
    \/ MatchAllLoop
    \/ MatchAllRecord
    \/ MatchAllReturn

(***************************************************************************)
(* Specifications.                                                         *)
(***************************************************************************)

InitAcquire == AcquireInit /\ ExIdle /\ RcIdle /\ VdIdle /\ MtIdle
InitDownloader == AcquireInit /\ ExIdle /\ RcIdle /\ VdIdle /\ MtIdle
InitShared == AcquireIdle /\ ExIdle /\ RcIdle /\ VdIdle /\ MtIdle
InitRecover == AcquireIdle /\ ExIdle /\ RcIdle /\ VdIdle /\ MtIdle
InitExtract == AcquireIdle /\ ExIdle /\ RcIdle /\ VdIdle /\ MtIdle
InitValidate == AcquireIdle /\ ExIdle /\ RcIdle /\ VdIdle /\ MtIdle
InitMatch == AcquireIdle /\ ExIdle /\ RcIdle /\ VdIdle /\ MtIdle

SpecAcquire == InitAcquire /\ [][AcquireNext]_vars
\* A call in progress goes on: the calls are synchronous and every request
\* they make has a timeout.
FairAcquire == InitAcquire /\ [][AcquireNext]_vars /\ WF_vars(\E p \in Procs : Step(p))
SpecDownloader == InitDownloader /\ [][DownloaderNext]_vars
SpecShared == InitShared /\ [][SharedNext]_vars
SpecRecover == InitRecover /\ [][RecoverNext]_vars
SpecExtract == InitExtract /\ [][ExtractNext]_vars
SpecValidate == InitValidate /\ [][ValidateNext]_vars
SpecMatch == InitMatch /\ [][MatchNext]_vars

(***************************************************************************)
(* Properties of the extraction protocol (under SpecExtract).              *)
(***************************************************************************)

\* The backend calls of the current extract_from_image call.
BackendCalls == Len(ex.attempts)

\* The call went past the probe and has returned.
ReturnedAfterProbe == ex.pc = "ret" /\ ex.connected

\* C4.  Bounded retry, as the code has it: the first backend call uses the
\* detailed prompt and the second the simplified one, there are never more
\* than two, and a call whose probe passed makes the second one if and only if
\* the first attempt did not succeed and the caller left retry enabled.
C4_BoundedRetry ==
    /\ BackendCalls <= 2
    /\ BackendCalls >= 1 => ex.attempts[1].prompt = "detailed"
    /\ BackendCalls = 2 => ex.attempts[2].prompt = "simple"
    /\ ReturnedAfterProbe =>
          (BackendCalls = 2 <=> (~ex.attempts[1].success /\ ex.retry))

\* C4 as stated: a call whose probe passed makes the second backend call if
\* and only if the first attempt did not succeed.
C4_SecondIffFirstFailed ==
    ReturnedAfterProbe => (BackendCalls = 2 <=> ~ex.attempts[1].success)

\* The first attempt failed to parse its response and the second, with the
\* simplified prompt, succeeded.
C4_Witness ==
    /\ ReturnedAfterProbe
    /\ ex.retry
    /\ BackendCalls = 2
    /\ ~ex.attempts[1].success
    /\ ex.attempts[2].success
    /\ ex.result.success
    /\ stats.retries >= 1

\* C5.  Probe failure: a call whose probe failed makes no backend call, and
\* returns a failure that says the backend cannot be reached.
C5_ProbeFailure ==
    ~ex.connected =>
        /\ ex.attempts = <<>>
        /\ ex.pc \in {"probe_failed", "ret"}
        /\ ex.pc = "ret" =>
              /\ ~ex.result.success
              /\ ~ex.result.paper_metadata.found
              /\ ex.result.error = "Cannot connect to Ollama. Is it running?"

\* A call has returned after its probe failed.
C5_Witness ==
    /\ ex.pc = "ret"
    /\ ~ex.connected
    /\ ex.attempts = <<>>
    /\ stats.failed >= 1

\* C20.  Tagged extraction outcome: the result extract_from_image returns is
\* a success, with the paper metadata and no error, or a failure, with an
\* error and no paper metadata; never both and never neither.
C20_TaggedOutcome ==
    ex.pc = "ret" =>
        /\ ex.result.success <=> (ex.result.paper_metadata.found /\ ex.result.error = None)
        /\ ~ex.result.success <=> (~ex.result.paper_metadata.found /\ ex.result.error # None)

\* A call whose two attempts both failed to parse the response has returned.
C20_Witness ==
    /\ ex.pc = "ret"
    /\ BackendCalls = 2
    /\ ~ex.result.success
    /\ ~ex.result.paper_metadata.found
    /\ ex.result.error = "Failed to parse model response as JSON"
    /\ stats.json_errors >= 2

(***************************************************************************)
(* Properties of response recovery (under SpecRecover).                    *)
(***************************************************************************)

\* The structure a document stands for: its JSON rendering, parsed.
StructureOf(doc) == json_loads(Render(doc, "json")).val

\* The characters of the title of a document, or <<>>.
TitleOfDoc(doc) ==
    IF \E k \in 1..(Len(doc) - 1) : doc[k] = K_title
    THEN doc[(CHOOSE k \in 1..(Len(doc) - 1) : doc[k] = K_title) + 1].s
    ELSE <<>>

\* C6.  Python-style response recovery: a response that wraps, in prose and a
\* code fence, a document written with single-quoted keys and strings and
\* None/True/False is recovered by the second strategy into the structure the
\* document stands for.
C6_PythonStyleRecovered ==
    (/\ rc.pc \in {"returned", "raised"}
     /\ rc.input.style = "python"
     /\ rc.input.wrap = "prose_fence")
        => /\ rc.pc = "returned"
           /\ rc.tried = <<1, 2>>
           /\ rc.ret.val = StructureOf(rc.input.doc)

\* C7.  Fencing invariance: a JSON object wrapped in a code fence is recovered
\* to what the same object is recovered to when supplied bare.
C7_FencingInvariance ==
    (/\ rc.pc \in {"returned", "raised"}
     /\ rc.input.style = "json"
     /\ rc.input.wrap \in {"json_fence", "fence"})
        => /\ rc.pc = "returned"
           /\ rc.ret = extract_json_safely(Render(rc.input.doc, "json"))

\* The text parses, as it is, to a JSON object.
IsJsonObject(text) ==
    \E parse \in {json_loads(text)} : parse.ok /\ parse.val.t = "obj"

\* C8.  Verbatim input: for a text that is a valid JSON object, recovery
\* returns the object the text parses to, from the first strategy alone (no
\* sanitization is applied); the title is the one written in the text.
C8_VerbatimInput ==
    (rc.pc \in {"returned", "raised"} /\ ~Blank(rc.text) /\ IsJsonObject(rc.text))
        => /\ rc.pc = "returned"
           /\ rc.tried = <<1>>
           /\ rc.ret = Returns(json_loads(rc.text).val)
           /\ (rc.input.style = "json" /\ rc.input.wrap = "bare"
                   /\ TitleOfDoc(rc.input.doc) # <<>>)
                => rc.ret.val.v[K_title.s] = JStr(TitleOfDoc(rc.input.doc))

\* The bare JSON object {"title": "None of the above"} has been returned with
\* its title as written.
C8_Witness ==
    /\ rc.pc = "returned"
    /\ rc.input = [doc |-> DocNoneTitle, style |-> "json", wrap |-> "bare", raw |-> <<>>]
    /\ rc.tried = <<1>>
    /\ rc.ret.val.t = "obj"
    /\ rc.ret.val.v[K_title.s] = JStr(<<"N", "o", "n", "e", " ", "o", "f", " ", "t", "h", "e", " ", "a", "b", "o", "v", "e">>)

\* C9.  Recovery never raises: no exception reaches the caller, and when all
\* four strategies fail to parse, the caller gets None.
C9_NeverRaises ==
    /\ rc.pc # "raised"
    /\ (rc.pc = "returned" /\ rc.tried = <<1, 2, 3, 4>> /\ FellThrough(Strategy(4, rc.text)))
          => rc.ret = Returns(JNull)

\* C10.  Recovery result type: what recovery returns is None or a dict, never
\* a list, a string, a number or a boolean.
C10_ResultIsDictOrNone ==
    rc.pc = "returned" => rc.ret.val.t \in {"null", "obj"}

(***************************************************************************)
(* Properties of the validation (under SpecValidate).                      *)
(***************************************************************************)

\* The value the recovered dict holds under key, Missing when it has none.
FieldOf(key) == DictGet(vd.data.v, key, Missing)

\* The call has a dict and validate_paper_data has run on it.
Validated == vd.data.t = "obj" /\ vd.pc \in {"authors", "paper", "except", "ret"}

\* C11.  Title default: the validated title is "Untitled" whenever the title
\* of the recovered structure is missing, null or no string, and a title that
\* is a string is kept as it is.
C11_TitleDefault ==
    Validated =>
        vd.validated.title =
            IF FieldOf(K_title.s).t = "str" THEN FieldOf(K_title.s).v ELSE Chars_Untitled

\* The entries of the authors value that are not falsy, in their order; none
\* when the value is no list.
KeptAuthors ==
    IF FieldOf(K_authors.s).t = "arr" THEN SelectSeq(FieldOf(K_authors.s).v, Truthy) ELSE <<>>

\* C12.  Authors and overview coercion: a recovered dict is never rejected
\* because of its authors or its overview: a PaperMetadata comes back, whose
\* authors are the entries that are not falsy, in their order and with their
\* duplicates (none when authors is null, missing or no list), and whose
\* overview is absent unless it was a string that is not empty.
C12_NeverRejects ==
    (vd.pc = "ret" /\ vd.data.t = "obj") =>
        /\ vd.paper.found
        /\ Len(vd.paper.authors) = Len(KeptAuthors)
        /\ \A k \in DOMAIN KeptAuthors :
              KeptAuthors[k].t = "str" => vd.paper.authors[k] = KeptAuthors[k].v
        /\ vd.paper.overview =
              IF FieldOf(K_overview.s).t = "str" /\ FieldOf(K_overview.s).v # <<>>
              THEN FieldOf(K_overview.s) ELSE JNull

(***************************************************************************)
(* Properties of the local file matcher (under SpecMatch).                 *)
(***************************************************************************)

\* A match_paper_to_pdf call on a list with files in it has returned.
MatchReturned == mt.pc = "ret" /\ mt.op = "match_paper_to_pdf" /\ mt.pdf_files # <<>>

\* The score of every (file, search string) pair of the call, as the triples
\* <<file, search string, score>>.
PairScores ==
    LET search_strings == _generate_search_strings(mt.paper)
    IN  {<<pair[1], pair[2],
           matcher_calculate_similarity(search_strings[pair[2]],
                                        str_lower(Stem(mt.pdf_files[pair[1]])))>> :
         pair \in (DOMAIN mt.pdf_files) \X (DOMAIN search_strings)}

\* The pairs that attain the maximum of the scores.
MaxPairs(scores) == {x \in scores : \A y \in scores : FracLeq(y[3], x[3])}

\* The first file, in the order of pdf_files, that attains the maximum.
FirstMaxFile(scores) == Min({x[1] : x \in MaxPairs(scores)})

\* The maximum of the scores.
MaxScore(scores) == (CHOOSE x \in MaxPairs(scores) : TRUE)[3]

\* C13.  Local match decision, as the code has it: match_paper_to_pdf returns
\* a file if and only if the maximum similarity over all (search string, file)
\* pairs is above 0 and at or above the threshold; the file returned is then
\* the first file, in the order of the list, that attains the maximum;
\* otherwise, and for an empty list, it returns None.
C13_MatchDecision ==
    /\ (mt.pc = "ret" /\ mt.op = "match_paper_to_pdf" /\ mt.pdf_files = <<>>) => mt.ret = 0
    /\ MatchReturned =>
          \E scores \in {PairScores} :
              /\ mt.ret # 0 <=> (/\ FracLess(<<0, 1>>, MaxScore(scores))
                                 /\ FracLeq(mt.similarity_threshold, MaxScore(scores)))
              /\ mt.ret # 0 => mt.ret = FirstMaxFile(scores)

\* C13 as stated: a file is returned if and only if the maximum similarity is
\* at or above the threshold, and it is the first file attaining the maximum.
C13_AtOrAboveThreshold ==
    MatchReturned =>
        \E scores \in {PairScores} :
            /\ mt.ret # 0 <=> FracLeq(mt.similarity_threshold, MaxScore(scores))
            /\ mt.ret # 0 => mt.ret = FirstMaxFile(scores)

\* With the default threshold, the second of three files has been returned:
\* the third scores the same and the first less.
C13_Witness ==
    /\ MatchReturned
    /\ mt.similarity_threshold = <<6, 10>>
    /\ Len(mt.pdf_files) = 3
    /\ mt.ret = 2
    /\ \E scores \in {PairScores} :
          /\ 3 \in {x[1] : x \in MaxPairs(scores)}
          /\ 1 \notin {x[1] : x \in MaxPairs(scores)}

\* C14.  Empty-string score: the similarity of two empty strings is 0, and so
\* below the threshold of the matcher.
C14_EmptyScoreIsZero ==
    (mt.pc = "ret" /\ mt.op = "_calculate_similarity" /\ mt.str1 = <<>> /\ mt.str2 = <<>>)
        => /\ mt.score[1] = 0
           /\ FracLess(mt.score, <<6, 10>>)

\* The matching operations.
MatchingOps == {"match_paper_to_pdf", "match_all_papers"}

\* C21.  Candidate immutability: no matching operation and no acquisition
\* operation changes any field of a paper object passed to it: all through a
\* call, every paper is as it was passed.
C21_PapersAsPassed ==
    /\ mt.op \in MatchingOps => mt.papers = mt.passed
    /\ \A p \in Procs : call[p].paper # NoPaper => call[p].paper \in Papers

\* The fields of a paper that hold its PDF.
PdfFields == {"pdf_found", "pdf_path"}

\* Papers x and y differ at most in the fields of the set given.
SameBut(x, y, fields) ==
    /\ DOMAIN x = DOMAIN y
    /\ \A field \in DOMAIN x \ fields : x[field] = y[field]

\* C22.  Match purity and bulk flag: a step of match_paper_to_pdf leaves the
\* paper, the papers of the caller, the file list and the counters as they
\* are.  match_all_papers assigns pdf_found and pdf_path of a paper only when
\* it records what match_paper_to_pdf returned for that paper, and only when a
\* file was returned; when it returns, every paper with a file has been
\* assigned once (flag set, path of the file), and every other paper not at
\* all and is as it was passed.
C22_PureMatchBulkFlag ==
    /\ [][mt.pc \in {"guard", "loop", "decide"} =>
            /\ mt'.paper = mt.paper
            /\ mt'.papers = mt.papers
            /\ mt'.assigned = mt.assigned
            /\ mt'.pdf_files = mt.pdf_files
            /\ mt'.counters = mt.counters]_vars
    /\ [][(mt.op = "match_all_papers" /\ mt'.op = "match_all_papers") =>
            IF mt.pc = "all_record" /\ mt.ret # 0
            THEN /\ mt'.assigned = [mt.assigned EXCEPT ![mt.k] = @ + 1]
                 /\ \A n \in DOMAIN mt.papers \ {mt.k} : mt'.papers[n] = mt.papers[n]
                 /\ SameBut(mt'.papers[mt.k], mt.papers[mt.k], PdfFields)
                 /\ mt'.papers[mt.k].pdf_found
                 /\ mt'.papers[mt.k].pdf_path = mt.pdf_files[mt.ret]
            ELSE mt'.papers = mt.papers /\ mt'.assigned = mt.assigned]_vars
    /\ [](mt.pc = "all_ret" =>
            /\ Len(mt.matches) = Len(mt.papers)
            /\ \A n \in DOMAIN mt.papers :
                  IF mt.matches[n] # 0
                  THEN /\ mt.assigned[n] = 1
                       /\ mt.papers[n].pdf_found
                       /\ mt.papers[n].pdf_path = mt.pdf_files[mt.matches[n]]
                  ELSE /\ mt.assigned[n] = 0
                       /\ mt.papers[n] = mt.passed[n])

\* match_all_papers has returned for three papers: one has been matched and
\* flagged, another, which already had a PDF, has not been matched and keeps
\* its flag and its path.
C22_Witness ==
    /\ mt.pc = "all_ret"
    /\ Len(mt.papers) = 3
    /\ \E n \in DOMAIN mt.papers :
          /\ mt.matches[n] # 0
          /\ ~mt.passed[n].pdf_found
          /\ mt.papers[n].pdf_found
    /\ \E n \in DOMAIN mt.papers :
          /\ mt.matches[n] = 0
          /\ mt.papers[n].pdf_found
          /\ mt.papers[n].pdf_path = Chars_OldPath
    /\ mt.counters = [papers_checked |-> 3, pdfs_matched |-> 2, no_match |-> 1]

(***************************************************************************)
(* Properties of the strategies of response recovery (under SpecRecover).  *)
(***************************************************************************)

\* What strategy number hands to json.loads when it works on the raw text.
OfRawText(number, raw) ==
    CASE number = 1 -> [found |-> TRUE, text |-> raw]
      [] number = 2 -> [found |-> TRUE, text |-> sanitize_json_string(raw)]
      [] number = 3 ->
            LET m == BraceSearch(raw)
            IN  IF m[1] = 0 THEN [found |-> FALSE, text |-> <<>>]
                ELSE [found |-> TRUE, text |-> SubSeq(raw, m[1], m[2])]
      [] number = 4 -> [found |-> TRUE, text |-> JoinLines(raw, 1)]

\* C23.  Strategy ordering and independence: the strategies run are 1, 2, 3, 4
\* in that order, up to some point; every strategy before the last one run
\* failed to parse; each one was handed what it makes of the raw text; and
\* what is returned is the value of the last one run if it parsed, and None
\* if the fourth failed too.
C23_StrategyOrder ==
    /\ Len(rc.attempts) = Len(rc.tried)
    /\ Len(rc.tried) <= 4
    /\ \A n \in DOMAIN rc.tried :
          /\ rc.tried[n] = n
          /\ rc.attempts[n].handed = OfRawText(n, rc.text)
          /\ n < Len(rc.tried) => FellThrough(rc.attempts[n].outcome)
    /\ (rc.pc = "returned" /\ rc.tried # <<>>) =>
          LET last == rc.attempts[Len(rc.attempts)].outcome
          IN  IF last.ok THEN rc.ret = Returns(last.val)
              ELSE /\ Len(rc.tried) = 4
                   /\ FellThrough(last)
                   /\ rc.ret = Returns(JNull)

\* The third strategy has parsed an object out of a text that sanitization
\* rewrites, after the first two failed.
C23_Witness ==
    /\ rc.pc = "returned"
    /\ rc.tried = <<1, 2, 3>>
    /\ sanitize_json_string(rc.text) # rc.text
    /\ ~rc.ret.raised
    /\ rc.ret.val.t = "obj"

\* The brace that closes the one opened before position j, depth braces being
\* open at j; 0 when there is none.
RECURSIVE BalancedEnd(_, _, _)
BalancedEnd(text, j, depth) ==
    LET b == FindClass(text, j, {"{", "}"})
    IN  IF b = 0 THEN 0
        ELSE IF text[b] = "{" THEN BalancedEnd(text, b + 1, depth + 1)
        ELSE IF depth = 1 THEN b
        ELSE BalancedEnd(text, b + 1, depth - 1)

\* The first balanced-brace object of the text as <<first, last>>: from the
\* first opening brace to the brace that balances it.
FirstBalanced(text) ==
    LET open == First(PositionsOf(text, "{"))
    IN  IF open = 0 THEN <<0, 0>> ELSE <<open, BalancedEnd(text, open + 1, 1)>>

\* C24.  Brace extraction: what the third strategy parses is the first
\* balanced-brace object of the raw text, from the first opening brace to the
\* brace that balances it.
C24_FirstBalancedObject ==
    \A n \in DOMAIN rc.attempts :
        (rc.tried[n] = 3 /\ rc.attempts[n].handed.found) =>
            LET m == FirstBalanced(rc.text)
            IN  m[2] # 0 => rc.attempts[n].handed.text = SubSeq(rc.text, m[1], m[2])

(***************************************************************************)
(* Properties of the stages of an acquisition (under SpecAcquire).         *)
(***************************************************************************)

\* The stage of the acquisition state machine a step of the trace is of:
\* search, gate, download, summary extraction, store update.
StageOf(name) ==
    CASE name = "search" -> 1
      [] name = "gate" -> 2
      [] name \in {"sleep", "get", "write"} -> 3
      [] name \in {"text", "generate"} -> 4
      [] name \in {"update_overview", "update_pdf_info"} -> 5

StagesIn(trace) == {StageOf(trace[i]) : i \in DOMAIN trace}

\* Caller p is inside a download_paper run, called by itself or from the loop
\* of download_all_missing.
InDownloadPaper(p) ==
    /\ call[p].op \in {"download_paper", "download_all_missing"}
    /\ call[p].pc \notin {"idle", "bulk_loop", "bulk_ret"}

SummaryPcs == {"ex_exists", "ex_text", "ex_gen", "dp_check"}
StorePcs == {"db_overview", "db_pdfinfo"}
FullRun ==
    <<"search", "gate", "sleep", "get", "write", "text", "generate",
      "update_overview", "update_pdf_info">>

\* C25.  Acquisition state machine: the steps of a download_paper run are in
\* the order search, gate, download, summary extraction, store update, none
\* of them made twice; a run whose search or gate failed has gone no further
\* than the gate, one whose download failed has not entered summary
\* extraction, one whose summary failed has not entered the store update, and
\* each of them has returned failure; a run that returns success has made
\* every step.
C25_StateMachine ==
    \A p \in Procs :
        InDownloadPaper(p) =>
            LET f == call[p]
                steps == Range(f.trace)
            IN  /\ \A i, j \in DOMAIN f.trace :
                      i < j => /\ StageOf(f.trace[i]) <= StageOf(f.trace[j])
                               /\ f.trace[i] # f.trace[j]
                /\ ("gate" \in steps
                        /\ (~f.result.found \/ BelowSixTenths(f.result.similarity)))
                      => (f.pc = "dp_ret" /\ ~f.success /\ f.trace = <<"search", "gate">>)
                /\ (f.pc \in SummaryPcs \cup StorePcs \/ StagesIn(f.trace) \cap {4, 5} # {})
                      => (f.dl_ok /\ {"search", "gate", "get", "write"} \subseteq steps)
                /\ (f.pc = "dp_ret" /\ "get" \in steps /\ ~f.dl_ok)
                      => (~f.success /\ f.message = "Failed to download PDF")
                /\ (f.pc \in StorePcs \/ 5 \in StagesIn(f.trace))
                      => (f.overview \notin {None, ""} /\ "generate" \in steps)
                /\ (f.pc = "dp_ret" /\ f.dl_ok /\ f.overview \in {None, ""})
                      => (~f.success /\ 5 \notin StagesIn(f.trace))
                /\ (f.pc = "dp_ret" /\ f.success) => f.trace = FullRun

\* A download_paper run has returned the failure of its download, having
\* written the file and gone no further.
C25_Witness ==
    \E p \in Procs :
        /\ call[p].op = "download_paper"
        /\ call[p].pc = "dp_ret"
        /\ ~call[p].success
        /\ call[p].message = "Failed to download PDF"
        /\ call[p].trace = <<"search", "gate", "sleep", "get", "write">>

\* The entry fails the gate for the title: it lacks an id or a title, or its
\* similarity is below 0.6.
FailsGate(entry, title) ==
    \/ entry.id = ""
    \/ entry.title = <<>>
    \/ BelowSixTenths(_calculate_similarity(title, entry.title))

\* C26.  First hit only: the result of a search is what the first entry the
\* index returned gives by itself; when that entry fails the gate the run is
\* rejected without a download request, whatever the entries after it; and
\* the PDF requested is that of the first entry.
C26_FirstHitOnly ==
    \A p \in Procs :
        (InDownloadPaper(p) /\ call[p].entries # <<>>) =>
            LET f == call[p]
                first == f.entries[1]
            IN  /\ f.result = search_paper(f.paper.title, <<first>>)
                /\ f.result.found => f.result.arxiv_id = first.id
                /\ FailsGate(first, f.paper.title) =>
                      /\ f.pc \in {"gate", "dp_ret"}
                      /\ f.pc = "dp_ret" => ~f.success
                      /\ "get" \notin Range(f.trace)
                      /\ disk[f.out] = NoFile
                /\ "get" \in Range(f.trace) => f.dl_url = [form |-> "pdf", id |-> first.id]

\* A run has been rejected on a first entry without an id although the second
\* entry has the very title of the paper.
C26_Witness ==
    \E p \in Procs :
        /\ call[p].pc = "dp_ret"
        /\ ~call[p].success
        /\ Len(call[p].entries) = 2
        /\ call[p].entries[1].id = ""
        /\ call[p].entries[2].title = call[p].paper.title
        /\ ~FailsGate(call[p].entries[2], call[p].paper.title)
        /\ call[p].message = "Paper not found on arXiv"

StoreUpdates == {"update_overview", "update_pdf_info"}

\* C27.  Store writes only on success: the store changes only in a step that
\* makes a store update; a call is at its store updates only with the file
\* written, of 1000 bytes or more, and a non-empty overview, update_overview
\* before update_pdf_info; and a call that returns failure has made no store
\* update.
C27_StoreWritesOnSuccess ==
    /\ [][store' # store =>
            \E p \in Procs :
                /\ call[p].pc \in StorePcs
                /\ call'[p].trace # call[p].trace]_vars
    /\ [](\A p \in Procs :
            LET f == call[p]
                steps == Range(f.trace)
            IN  /\ (f.pc \in StorePcs \/ steps \cap StoreUpdates # {}) =>
                      /\ "write" \in steps
                      /\ f.dl_ok
                      /\ Exists(f.out)
                      /\ disk[f.out].size >= 1000
                      /\ f.overview \notin {None, ""}
                /\ "update_pdf_info" \in steps =>
                      (Len(f.trace) > 1 /\ f.trace[Len(f.trace) - 1] = "update_overview")
                /\ (f.pc = "dp_ret" /\ ~f.success) => steps \cap StoreUpdates = {})

\* A download_paper call has returned success after both store updates, and
\* the row of its paper has the overview and the path.
C27_Witness ==
    \E p \in Procs :
        /\ call[p].op = "download_paper"
        /\ call[p].pc = "dp_ret"
        /\ call[p].success
        /\ call[p].paper.paper_id \in StoreIds
        /\ store[call[p].paper.paper_id] =
              Row(TRUE, call[p].out, call[p].pdf_url, "overview")
        /\ disk[call[p].out].size >= 1000

(***************************************************************************)
(* Properties of the downloader used by itself (under SpecDownloader).     *)
(***************************************************************************)

\* C28.  No loss of pre-existing files: a download_from_url call that found a
\* file at its destination and failed before writing anything leaves that
\* file as it was.
C28_ExistingFileKept ==
    \A p \in Procs :
        (/\ call[p].op = "download_from_url"
         /\ call[p].pc = "dl_ret"
         /\ ~call[p].startAbsent
         /\ ~call[p].success
         /\ "write" \notin Range(call[p].trace))
            => disk[call[p].out] = OldFile

(***************************************************************************)
(* Properties of the shared service (under SpecShared).                    *)
(***************************************************************************)

\* C29.  Concurrent acquisitions of one paper: no download_paper call raises,
\* and once the calls have returned the store marks the paper as pdf_found
\* only if its destination file is on disk.
C29_SharedCallsAgree ==
    /\ \A p \in Procs : call[p].pc # "dp_raised"
    /\ (\A p \in Procs : call[p].pc \in {"idle", "dp_ret"}) =>
          (PdfFound(SharedPaper.paper_id) =>
              Exists(OutputPath(SharedPaper, UiConference(SharedPaper))))

(***************************************************************************)
(* Properties of the extraction counters (under SpecExtract).              *)
(***************************************************************************)

\* The attempts counted by their outcome.
Outcomes == stats.successful + stats.failed + stats.json_errors

\* C30.  Extraction counters: no counter ever decreases; between calls,
\* successful <= processed, retries <= processed, and successful + failed +
\* json_errors is processed + retries plus the number of calls whose probe
\* failed, so at least processed + retries, and equal to it exactly when no
\* call failed its probe.
C30_Counters ==
    /\ [][\A counter \in DOMAIN stats : stats'[counter] >= stats[counter]]_vars
    /\ [](ex.pc = "idle" =>
            /\ stats.successful <= stats.processed
            /\ stats.retries <= stats.processed
            /\ Outcomes >= stats.processed + stats.retries
            /\ Outcomes = stats.processed + stats.retries + ex.probe_failures
            /\ (Outcomes = stats.processed + stats.retries) <=> (ex.probe_failures = 0))

\* Three calls have been made: the probe of one failed, another was retried,
\* and one succeeded.
C30_Witness ==
    /\ ex.pc = "idle"
    /\ ex.calls = 3
    /\ ex.probe_failures = 1
    /\ stats.retries >= 1
    /\ stats.successful >= 1
    /\ stats.processed = 2
    /\ Outcomes > stats.processed + stats.retries
=============================================================================
